---------------------------- MODULE Spec2Model ----------------------------
(***************************************************************************)
(* A model of the KCL program loader (kclvm/parser/src/lib.rs): package    *)
(* resolution (find_packages), dependency discovery (get_deps), the        *)
(* breadth-first traversal of parse_entry over the shared module cache,    *)
(* and the ordering / import-rewriting pass of parse_program; and of the   *)
(* lock-protected diagnostics sink (compiler_base DiagnosticHandlerInner). *)
(***************************************************************************)
EXTENDS Naturals, Sequences, FiniteSets, TLC

(***************************************************************************)
(* Bounds of the model.                                                    *)
(***************************************************************************)
\* how many import statements the entry file holds at most
MaxImports == 2
\* how many successive load_program calls share one module cache
MaxLoads == 2
\* how many diagnostics each concurrent writer adds to the sink
MaxAdds == 2

\* the threads that write to the diagnostics sink
Writers == {"w1", "w2", "w3"}

(***************************************************************************)
(* The file system the loader runs against.  Paths are abbreviated:        *)
(*   "a"  = R/pa/a.k      the entry file, also the member of package pa    *)
(*   "h"  = R/pa/_h.k     "at" = R/pa/a_test.k   "txt" = R/pa/notes.txt    *)
(*   "b"  = R/pb.k        the single-file package pb                       *)
(*   "vc" = R/vendor/pc/c.k, a link to "c" = V/c.k (external package pc)   *)
(*   "d"  = R/dup/d.k     "e" = VD/e.k  (package dup exists twice)         *)
(* R/pe, R/px and R/math are directories without KCL files, R/pio is a     *)
(* directory that cannot be listed.  V = KPM/pc, VD = KPM/dup and           *)
(* VX = KPM/px, under the vendor home KPM, hold a kcl.mod file; VX cannot   *)
(* be listed.                                                              *)
(***************************************************************************)
MAIN_PKG == "__main__"

\* every import path a module of the model may write
ImportPaths ==
    {"", "kcl_plugin.p", "math", "pa", "pc", "..pb", "vendor.pc", "pe",
     "dup", "missing", "pio", "px"}

\* the order in which the import statements of one file are written
ImportOrder ==
    <<"", "kcl_plugin.p", "math", "pa", "pc", "..pb", "vendor.pc", "pe",
      "dup", "missing", "pio", "px">>

\* the files whose content the model varies
SourceFiles == {"a", "b", "c"}

\* the import paths each varied file may hold
Candidates(f) ==
    CASE f = "a" -> ImportPaths
      [] f = "b" -> {"pa", "pc"}
      [] OTHER   -> {"pc", "pio"}

\* PathBuf::canonicalize on the paths of the model: the link resolves
Canonical(path) == IF path = "vc" THEN "c" ELSE path

\* the lexicographic rank of a path, for Vec::sort
PathRank(path) ==
    CASE path = "a" -> 1 [] path = "at" -> 2 [] path = "b" -> 3
      [] path = "c" -> 4 [] path = "d" -> 5 [] path = "e" -> 6
      [] path = "h" -> 7 [] path = "txt" -> 8 [] OTHER -> 9

DirEntry(name, k, test, under) ==
    [name |-> name, k_suffix |-> k, test_suffix |-> test, underscore |-> under]

\* does the directory root/pkgpath exist
DirExists(root, pkgpath) ==
    \/ root = "R" /\ pkgpath \in {"pa", "vendor.pc", "pe", "dup", "pio", "px", "math"}
    \/ root = "KPM" /\ pkgpath \in {"pc", "dup", "px"}
    \/ root \in {"V", "VD", "VX"} /\ pkgpath = ""

\* can the directory be listed (std::fs::read_dir succeeds)
DirReadable(root, pkgpath) ==
    /\ ~(root = "R" /\ pkgpath = "pio")
    /\ ~(root = "VX" /\ pkgpath = "")

\* the entries std::fs::read_dir yields
DirEntries(root, pkgpath) ==
    CASE root = "R" /\ pkgpath = "pa" ->
            {DirEntry("a", TRUE, FALSE, FALSE), DirEntry("h", TRUE, FALSE, TRUE),
             DirEntry("at", TRUE, TRUE, FALSE), DirEntry("txt", FALSE, FALSE, FALSE)}
      [] root = "R" /\ pkgpath = "vendor.pc" -> {DirEntry("vc", TRUE, FALSE, FALSE)}
      [] root = "R" /\ pkgpath = "dup" -> {DirEntry("d", TRUE, FALSE, FALSE)}
      [] root = "V" /\ pkgpath = "" -> {DirEntry("c", TRUE, FALSE, FALSE)}
      [] root = "VD" /\ pkgpath = "" -> {DirEntry("e", TRUE, FALSE, FALSE)}
      [] OTHER -> {}

\* does the file root/pkgpath.k exist, and which path is it
KFileExists(root, pkgpath) == root = "R" /\ pkgpath = "pb"
KFileOf(root, pkgpath) == "b"

\* the vendor home of LoadProgramOptions.vendor_dirs, the directory
\* dir/pkg_name of an external package, and whether it holds a kcl.mod
vendor_dirs == <<"KPM">>
VendorRoot(dir, pkg_name) ==
    IF pkg_name = "pc" THEN "V" ELSE IF pkg_name = "px" THEN "VX" ELSE "VD"
KclModExists(root) == root \in {"V", "VD", "VX"}

(***************************************************************************)
(* Small helpers on sequences and maps.                                    *)
(***************************************************************************)
Range(s) == {s[i] : i \in DOMAIN s}

NoDup(s) == \A i, j \in DOMAIN s : s[i] = s[j] => i = j

RECURSIVE SortedSeq(_)
SortedSeq(S) ==
    IF S = {} THEN <<>>
    ELSE LET m == CHOOSE x \in S : \A y \in S : PathRank(x) <= PathRank(y)
         IN <<m>> \o SortedSeq(S \ {m})

\* HashMap::insert / IndexMap::insert
Put(m, k, v) == (k :> v) @@ m

\* HashMap::extend
Extend(m, n) == n @@ m

EmptyMap == <<>>

(***************************************************************************)
(* The session's diagnostics sink (sess.1), an insertion-ordered set.      *)
(***************************************************************************)
Diag(level, kind, pos, msg, arg) ==
    [level |-> level, kind |-> kind, pos |-> pos, msg |-> msg, arg |-> arg]

DummyPos == [filename |-> "", line |-> 0]

\* Handler::add_error / add_suggestions: insert into the ordered set
AddDiag(diags, d) == IF d \in Range(diags) THEN diags ELSE Append(diags, d)

\* the k-th diagnostic the writer w adds; NoDiag when it adds none
SinkDiag(w, k, level) == [by |-> w, no |-> k, level |-> level]

NoDiag == SinkDiag("", 0, "")

ErrorsOf(diags) == SelectSeq(diags, LAMBDA d : d.level = "error")

(***************************************************************************)
(* Package resolution.                                                     *)
(***************************************************************************)
PkgInfo(pkg_name, pkg_root, pkg_path, k_files) ==
    [pkg_name |-> pkg_name, pkg_root |-> pkg_root, pkg_path |-> pkg_path,
     k_files |-> k_files]

NoPkgInfo == PkgInfo("", "", "", <<>>)

\* a Result<Option<PkgInfo>>: tag is "some", "none" or "err"
Found(tag, info) == [tag |-> tag, info |-> info]

is_plugin_pkg(pkgpath) == pkgpath \in {"kcl_plugin.p"}

is_builtin_pkg(pkgpath) == pkgpath \in {"math"}

\* kclvm_utils::pkgpath::parse_external_pkg_name: the first segment
parse_external_pkg_name(pkg_path) ==
    IF pkg_path = "vendor.pc" THEN "vendor"
    ELSE IF pkg_path = "..pb" THEN "" ELSE pkg_path

\* kclvm_utils::pkgpath::rm_external_pkg_name: the path behind the first segment
rm_external_pkg_name(pkg_path) == IF pkg_path = "vendor.pc" THEN "pc" ELSE ""

\* kclvm_config::vfs::fix_import_path: a relative import becomes absolute
fix_import_path(pkgroot, filename, import_path) ==
    IF import_path = "..pb" /\ pkgroot = "R" THEN "pb" ELSE import_path

pkg_exists_in_path(path, pkgpath) ==
    DirExists(path, pkgpath) \/ KFileExists(path, pkgpath)

\* the first root that holds pkgpath, as a sequence of at most one root
FirstOf(hits) == IF hits = <<>> THEN <<>> ELSE <<hits[1]>>

pkg_exists(pkgroots, pkgpath) ==
    FirstOf(SelectSeq(pkgroots, LAMBDA root : pkg_exists_in_path(root, pkgpath)))

\* Result<Vec<String>>: [ok, files]
get_dir_files(root, pkgpath) ==
    IF ~DirExists(root, pkgpath) THEN [ok |-> TRUE, files |-> <<>>]
    ELSE IF ~DirReadable(root, pkgpath) THEN [ok |-> FALSE, files |-> <<>>]
    ELSE LET kept == {e \in DirEntries(root, pkgpath) :
                         e.k_suffix /\ ~e.test_suffix /\ ~e.underscore}
         IN [ok |-> TRUE, files |-> SortedSeq({e.name : e \in kept})]

get_pkg_kfile_list(pkgroot, pkgpath) ==
    IF is_plugin_pkg(pkgpath) THEN [ok |-> TRUE, files |-> <<>>]
    ELSE IF is_builtin_pkg(pkgpath) THEN [ok |-> TRUE, files |-> <<>>]
    ELSE IF pkgroot = "" THEN [ok |-> FALSE, files |-> <<>>]
    ELSE IF DirExists(pkgroot, pkgpath) THEN get_dir_files(pkgroot, pkgpath)
    ELSE IF KFileExists(pkgroot, pkgpath)
         THEN [ok |-> TRUE, files |-> <<KFileOf(pkgroot, pkgpath)>>]
    ELSE [ok |-> TRUE, files |-> <<>>]

\* the PkgInfo of a package found at pkg_root, or the error of its listing
pkg_found(pkg_name, pkg_root, pkg_path, k_files) ==
    IF ~k_files.ok THEN Found("err", NoPkgInfo)
    ELSE Found("some", PkgInfo(pkg_name, pkg_root, pkg_path, k_files.files))

internal_at(hit, pkg_name, pkg_root, pkg_path) ==
    IF hit = <<>> THEN Found("none", NoPkgInfo)
    ELSE pkg_found(pkg_name, hit[1],
                   IF pkg_name = MAIN_PKG THEN pkg_path
                   ELSE pkg_name \o "." \o pkg_path,
                   get_pkg_kfile_list(pkg_root, pkg_path))

is_internal_pkg(pkg_name, pkg_root, pkg_path) ==
    internal_at(pkg_exists(<<pkg_root>>, pkg_path), pkg_name, pkg_root, pkg_path)

external_at(abs_root, pkg_name, pkg_path) ==
    IF ~KclModExists(abs_root) THEN Found("none", NoPkgInfo)
    ELSE pkg_found(pkg_name, abs_root, pkg_path,
                   get_pkg_kfile_list(abs_root, rm_external_pkg_name(pkg_path)))

external_in(hit, pkg_name, pkg_path) ==
    IF hit = <<>> THEN Found("none", NoPkgInfo)
    ELSE external_at(VendorRoot(hit[1], pkg_name), pkg_name, pkg_path)

is_external_pkg(pkg_path, o) ==
    external_in(pkg_exists(o.vendor_dirs, pkg_path),
                parse_external_pkg_name(pkg_path), pkg_path)

\* one call of find_packages, as the log keeps it
FpCall(pkg_name, pkg_root, pkg_path, o, tag, info, errs, from) ==
    [pkg_name |-> pkg_name, pkg_root |-> pkg_root, pkg_path |-> pkg_path,
     load_plugins |-> o.load_plugins, tag |-> tag, info |-> info,
     errs |-> errs, from |-> from]

\* the value find_packages returns with the sink it leaves behind:
\* errs are the error diagnostics this call handed to add_error
FpRet(tag, info, diags, errs) ==
    [tag |-> tag, info |-> info, diags |-> diags, errs |-> errs]

CannotFind(pos, msg, pkg_path) ==
    Diag("error", "CannotFindModule", pos, msg, <<pkg_path>>)

Suggestion(msg, arg) == Diag("suggestion", "Suggestions", DummyPos, msg, arg)

add_suggestions(diags, pkg_path) ==
    AddDiag(IF parse_external_pkg_name(pkg_path) # ""
            THEN AddDiag(diags, Suggestion("try 'kcl mod add'",
                                           <<parse_external_pkg_name(pkg_path)>>))
            ELSE diags,
            Suggestion("browse more packages", <<>>))

\* add_error of a CannotFindModule diagnostic, followed by Ok(None)
cannot_find(diags, d) == FpRet("none", NoPkgInfo, AddDiag(diags, d), <<d>>)

\* a variant of not_found that makes the missing package a hard error
not_found_fatal(diags, d, pkg_path) ==
    FpRet("err", NoPkgInfo, add_suggestions(AddDiag(diags, d), pkg_path), <<d>>)

\* the same, with the suggestions of the "not found" case
not_found(diags, d, pkg_path) ==
    FpRet("none", NoPkgInfo, add_suggestions(AddDiag(diags, d), pkg_path), <<d>>)

\* a variant of choose_pkg without step 3: the internal package wins
choose_pkg_internal_first(pos, pkg_path, diags, is_internal, is_external) ==
    IF is_internal.tag = "err" THEN FpRet("err", NoPkgInfo, diags, <<>>)
    ELSE IF is_external.tag = "err" THEN FpRet("err", NoPkgInfo, diags, <<>>)
    ELSE IF is_internal.tag = "some" THEN FpRet("some", is_internal.info, diags, <<>>)
    ELSE IF is_external.tag = "some" THEN FpRet("some", is_external.info, diags, <<>>)
    ELSE not_found(diags, CannotFind(pos, "not found in the program", pkg_path),
                   pkg_path)

\* steps 3 and 4 of find_packages, on the two lookups' results
choose_pkg(pos, pkg_path, diags, is_internal, is_external) ==
    IF is_internal.tag = "err" THEN FpRet("err", NoPkgInfo, diags, <<>>)
    ELSE IF is_external.tag = "err" THEN FpRet("err", NoPkgInfo, diags, <<>>)
    ELSE IF is_external.tag = "some" /\ is_internal.tag = "some"
    THEN cannot_find(diags, CannotFind(pos, "found multiple times", pkg_path))
    ELSE IF is_internal.tag = "some" THEN FpRet("some", is_internal.info, diags, <<>>)
    ELSE IF is_external.tag = "some" THEN FpRet("some", is_external.info, diags, <<>>)
    ELSE not_found(diags, CannotFind(pos, "not found in the program", pkg_path),
                   pkg_path)

\* a variant of find_packages that looks for the package before it asks
\* whether the path names a builtin module
find_packages_builtin_last(pos, pkg_name, pkg_root, pkg_path, o, diags) ==
    IF pkg_path = "" THEN FpRet("none", NoPkgInfo, diags, <<>>)
    ELSE IF is_plugin_pkg(pkg_path) THEN
        IF ~o.load_plugins
        THEN cannot_find(diags, CannotFind(pos, "plugin package is not found", pkg_path))
        ELSE FpRet("none", NoPkgInfo, diags, <<>>)
    ELSE IF is_internal_pkg(pkg_name, pkg_root, pkg_path).tag = "none"
            /\ is_builtin_pkg(pkg_path)
    THEN FpRet("none", NoPkgInfo, diags, <<>>)
    ELSE choose_pkg(pos, pkg_path, diags,
                    is_internal_pkg(pkg_name, pkg_root, pkg_path),
                    is_external_pkg(pkg_path, o))

find_packages(pos, pkg_name, pkg_root, pkg_path, o, diags) ==
    IF pkg_path = "" THEN FpRet("none", NoPkgInfo, diags, <<>>)
    ELSE IF is_plugin_pkg(pkg_path) THEN
        IF ~o.load_plugins
        THEN cannot_find(diags, CannotFind(pos, "plugin package is not found", pkg_path))
        ELSE FpRet("none", NoPkgInfo, diags, <<>>)
    ELSE IF is_builtin_pkg(pkg_path) THEN FpRet("none", NoPkgInfo, diags, <<>>)
    ELSE choose_pkg(pos, pkg_path, diags,
                    is_internal_pkg(pkg_name, pkg_root, pkg_path),
                    is_external_pkg(pkg_path, o))

(***************************************************************************)
(* Modules, package files and the file graph.                              *)
(***************************************************************************)
PkgFile(path, pkg_path) == [path |-> path, pkg_path |-> pkg_path]

Pkg(pkg_name, pkg_root) == [pkg_name |-> pkg_name, pkg_root |-> pkg_root]

ImportStmt(path, pkg_name) == [path |-> path, pkg_name |-> pkg_name]

\* a statement of the text that the parser cannot parse
Broken == "("

\* the statements of the text the parser recovers
Recovered(code) == SelectSeq(code, LAMBDA t : t # Broken)

\* Parser::parse_module: one import statement per import path of the text
parse_module(code) ==
    [filename |-> "",
     body |-> [i \in 1..Len(Recovered(code)) |-> ImportStmt(Recovered(code)[i], "")]]

\* the loader's hard errors
Err(msg, file) == [msg |-> msg, file |-> file]

NoErr == Err("", "")

(***************************************************************************)
(* PkgFileGraph: the nodes in insertion order and the import edges.        *)
(***************************************************************************)
EmptyGraph == [nodes |-> <<>>, edges |-> {}]

get_or_insert_node(g, file) ==
    IF file \in Range(g.nodes) THEN g ELSE [g EXCEPT !.nodes = Append(@, file)]

RECURSIVE add_edges(_, _, _, _)
add_edges(g, from, deps, i) ==
    IF i > Len(deps) THEN g
    ELSE add_edges([get_or_insert_node(g, deps[i]) EXCEPT
                        !.edges = @ \cup {<<from, deps[i]>>}],
                   from, deps, i + 1)

\* replace the outgoing edges of from_path by edges to to_paths
update_file(g, from_path, to_paths) ==
    add_edges([get_or_insert_node(g, from_path) EXCEPT
                  !.edges = {e \in @ : e[1] # from_path}],
              from_path, to_paths, 1)

contains_file(g, file) == file \in Range(g.nodes)

dependencies_of(g, file) == {e[2] : e \in {x \in g.edges : x[1] = file}}

\* all known files
paths(g) == g.nodes

\* the first occurrence of every element of s, in order
Dedup(s) == SelectSeq([i \in DOMAIN s |-> <<i, s[i]>>],
                      LAMBDA x : \A j \in 1..(x[1] - 1) : s[j] # x[2])

\* the graph over file paths alone: the package path is dropped
file_path_graph(g) ==
    [nodes |-> [k \in DOMAIN Dedup([i \in 1..Len(g.nodes) |-> g.nodes[i].path]) |->
                   Dedup([i \in 1..Len(g.nodes) |-> g.nodes[i].path])[k][2]],
     edges |-> {<<e[1].path, e[2].path>> : e \in g.edges}]

Succ(edges, n) == {e[2] : e \in {x \in edges : x[1] = n}}

RECURSIVE ReachFrom(_, _)
\* the set S closed under the edges
ReachFrom(edges, S) ==
    IF UNION {Succ(edges, n) : n \in S} \subseteq S THEN S
    ELSE ReachFrom(edges, S \cup UNION {Succ(edges, n) : n \in S})

Reach(edges, n) == ReachFrom(edges, Succ(edges, n))

OnCycle(edges, n) == n \in Reach(edges, n)

\* the nodes not yet out all of whose dependencies are out
Ready(nodes, edges, out) ==
    SelectSeq(nodes, LAMBDA n :
        n \notin Range(out) /\ Succ(edges, n) \subseteq Range(out))

RECURSIVE TopoFrom(_, _, _)
\* dependencies first: emit the first node all of whose dependencies are out
TopoFrom(nodes, edges, out) ==
    IF Ready(nodes, edges, out) = <<>> THEN out
    ELSE TopoFrom(nodes, edges, Append(out, Ready(nodes, edges, out)[1]))

\* Ok(ordering) or Err(cycle): the cycle is the ordered list of the files of
\* the first strongly connected component that holds a cycle
sorted_or_cycle(g, looped) ==
    IF looped = <<>>
    THEN [ok |-> TRUE, files |-> TopoFrom(g.nodes, g.edges, <<>>)]
    ELSE [ok |-> FALSE,
          files |-> SelectSeq(g.nodes, LAMBDA n :
                       n = looped[1]
                       \/ (n \in Reach(g.edges, looped[1])
                           /\ looped[1] \in Reach(g.edges, n)))]

toposort(g) == sorted_or_cycle(g, SelectSeq(g.nodes, LAMBDA n : OnCycle(g.edges, n)))

(***************************************************************************)
(* The state of the program.                                               *)
(***************************************************************************)
VARIABLES
    source,        \* the text of each file: its import paths in order
    unreadable,    \* the file std::fs::read_to_string fails on, or "none"
    k_code,        \* does k_code_list hold the entry file's text
    opts,          \* LoadProgramOptions
    module_cache,  \* the shared ModuleCache: ast_cache and dep_cache
    sess,          \* the diagnostics of the session of the running load
    file_graph,    \* the Loader's file graph
    pkgs,          \* pkgpath -> modules, of the running load
    pkgmap,        \* PkgFile -> Pkg, of the running load
    unparsed_file, \* the worklist of parse_entry
    parsed_file,   \* the visited set of parse_entry
    pc,            \* where the running load is: idle, entry, bfs, crashed
    calls,         \* the find_packages calls of the last step
    parse_log,     \* the files handed to parse_file by the running load
    step,          \* what the last step did
    results        \* what each finished load returned

loader_vars ==
    <<source, unreadable, k_code, opts, module_cache, sess, file_graph, pkgs,
      pkgmap, unparsed_file, parsed_file, pc, calls, parse_log, step, results>>

world == <<source, unreadable, k_code, opts>>

\* the diagnostics sink of compiler_base under concurrent writers
VARIABLES
    diagnostics,   \* DiagnosticHandlerInner.diagnostics
    err_count,     \* DiagnosticHandlerInner.err_count
    warn_count,    \* DiagnosticHandlerInner.warn_count
    lock,          \* the writer inside the exclusive section, or "free"
    writer,        \* each writer: where it is, what it adds, how many it added
    added          \* the diagnostics whose add has returned

sink_vars == <<diagnostics, err_count, warn_count, lock, writer, added>>

\* parse_file beside a reader of the shared module cache and file graph
VARIABLES
    cache_lock,    \* the RwLock of the module cache: its writer and readers
    graph_lock,    \* the RwLock of the file graph: its writer and readers
    recording,     \* where the running parse_file is and what it holds
    observer       \* where the reader is and what it saw last

record_vars == <<cache_lock, graph_lock, recording, observer>>

\* the scope tree of the resolver and the symbols it refers to
VARIABLES
    scope_data,    \* ScopeData: root_map, locals, roots
    symbol_data,   \* the symbols of KCLSymbolData that resolve
    scope_abort,   \* has a ScopeData operation aborted (unreachable!)
    scope_step     \* the last ScopeData operation

scope_vars == <<scope_data, symbol_data, scope_abort, scope_step>>

\* contains_pos applied to one scope and one position
VARIABLES
    probe          \* the scope, the position and what contains_pos answered

\* parse_expr applied to one token stream
VARIABLES
    parser         \* the token stream and the expression parse_expr returned

\* one call of execute of the runner
VARIABLES
    exec           \* its arguments, where it is, the stages it went through

\* loaders running at once on one module cache
VARIABLES
    threads        \* the locks each holds and what it has left to do

vars == <<loader_vars, sink_vars, record_vars, scope_vars, probe, parser, exec, threads>>

\* what the steps of the loader leave alone
beside_loader == <<sink_vars, record_vars, scope_vars, probe, parser, exec, threads>>

\* what the steps of the sink leave alone
beside_sink == <<loader_vars, record_vars, scope_vars, probe, parser, exec, threads>>

\* what the steps of parse_file and of its reader leave alone, the loader's
\* state apart
beside_record == <<sink_vars, scope_vars, probe, parser, exec, threads>>

\* what the ScopeData operations leave alone
beside_scope == <<loader_vars, sink_vars, record_vars, probe, parser, exec, threads>>

\* what contains_pos leaves alone
beside_probe == <<loader_vars, sink_vars, record_vars, scope_vars, parser, exec, threads>>

\* what execute leaves alone
beside_exec ==
    <<loader_vars, sink_vars, record_vars, scope_vars, probe, parser, threads>>

\* what the concurrent loaders leave alone
beside_threads ==
    <<loader_vars, sink_vars, record_vars, scope_vars, probe, parser, exec>>

\* what parse_expr leaves alone
beside_parser == <<loader_vars, sink_vars, record_vars, scope_vars, probe, exec, threads>>

\* the entry of get_compile_entries_from_paths: one entry holding one file
EntryFiles == <<"a">>
EntryName == MAIN_PKG
EntryRoot == "R"

Content(path) ==
    IF Canonical(path) \in SourceFiles THEN source[Canonical(path)] ELSE <<>>

\* the diagnostics the lexer and the parser add to the session: one for
\* every statement of the text they cannot parse
syntax_errors(filename, code) ==
    LET at == SelectSeq([i \in 1..Len(code) |-> i], LAMBDA i : code[i] = Broken)
    IN [k \in 1..Len(at) |->
           Diag("error", "InvalidSyntax", [filename |-> filename, line |-> at[k]],
                "invalid syntax", <<>>)]

\* the sink after the diagnostics ds were added one by one
RECURSIVE AddDiags(_, _)
AddDiags(diags, ds) ==
    IF ds = <<>> THEN diags ELSE AddDiags(AddDiag(diags, Head(ds)), Tail(ds))

\* a variant of parse_file_with_session that takes a file it cannot read
\* for an empty one
parse_file_with_session_lenient(filename, code) ==
    [ok |-> TRUE,
     m |-> [parse_module(IF code.some THEN code.text
                         ELSE IF Canonical(filename) = unreadable THEN <<>>
                         ELSE Content(filename))
            EXCEPT !.filename = filename],
     errors |-> syntax_errors(filename,
                              IF code.some THEN code.text
                              ELSE IF Canonical(filename) = unreadable THEN <<>>
                              ELSE Content(filename)),
     err |-> NoErr]

\* Result<Module>: the text is code when given, else read from the file
parse_file_with_session(filename, code) ==
    IF ~code.some /\ Canonical(filename) = unreadable
    THEN [ok |-> FALSE, m |-> parse_module(<<>>), errors |-> <<>>,
          err |-> Err("Failed to load KCL file", filename)]
    ELSE LET src == IF code.some THEN code.text ELSE Content(filename)
         IN [ok |-> TRUE, m |-> [parse_module(src) EXCEPT !.filename = filename],
             errors |-> syntax_errors(filename, src), err |-> NoErr]

SomeCode(text) == [some |-> TRUE, text |-> text]

NoCode == [some |-> FALSE, text |-> <<>>]

(***************************************************************************)
(* get_deps: the dependencies the import statements of one module add.     *)
(***************************************************************************)
DepsAcc(tag, deps, new_pkgmap, modules, diags, log) ==
    [tag |-> tag, deps |-> deps, new_pkgmap |-> new_pkgmap, modules |-> modules,
     diags |-> diags, log |-> log]

\* the files of a resolved package as dependencies
PkgFilesOf(pkg_info) ==
    [k \in 1..Len(pkg_info.k_files) |-> PkgFile(pkg_info.k_files[k], pkg_info.pkg_path)]

\* a variant of add_import that leaves the files of the package out of the
\* package map
add_import_unregistered(acc, pkg_info) ==
    [acc EXCEPT
        !.modules = IF pkg_info.k_files = <<>> THEN Put(@, pkg_info.pkg_path, <<>>)
                    ELSE @,
        !.deps = @ \o PkgFilesOf(pkg_info)]

\* what one resolved import adds to the accumulated result
add_import(acc, pkg_info) ==
    [acc EXCEPT
        !.modules = IF pkg_info.k_files = <<>> THEN Put(@, pkg_info.pkg_path, <<>>)
                    ELSE @,
        !.new_pkgmap = [f \in Range(PkgFilesOf(pkg_info)) |->
                            Pkg(pkg_info.pkg_name, pkg_info.pkg_root)] @@ @,
        !.deps = @ \o PkgFilesOf(pkg_info)]

\* the position of the i-th statement of the module m
StmtPos(m, i) == [filename |-> m.filename, line |-> i]

\* the accumulated result after the call r of find_packages
import_found(acc, pkg, fix_path, o, r) ==
    IF r.tag = "some"
    THEN add_import([acc EXCEPT
                        !.diags = r.diags,
                        !.log = @ \cup {FpCall(pkg.pkg_name, pkg.pkg_root, fix_path, o,
                                               r.tag, r.info, r.errs, "get_deps")}],
                    r.info)
    ELSE [acc EXCEPT
            !.tag = IF r.tag = "err" THEN "err" ELSE @,
            !.diags = r.diags,
            !.log = @ \cup {FpCall(pkg.pkg_name, pkg.pkg_root, fix_path, o,
                                   r.tag, r.info, r.errs, "get_deps")}]

\* one import statement: fix the path, resolve the package
import_stmt(acc, m, i, pkg, fix_path, o) ==
    import_found(acc, pkg, fix_path, o,
                 find_packages(StmtPos(m, i), pkg.pkg_name, pkg.pkg_root, fix_path, o,
                               acc.diags))

RECURSIVE get_deps_from(_, _, _, _, _, _)
get_deps_from(i, file, m, the_pkgmap, o, acc) ==
    IF i > Len(m.body) \/ acc.tag # "ok" THEN acc
    ELSE IF file \notin DOMAIN the_pkgmap THEN [acc EXCEPT !.tag = "panic"]
    ELSE get_deps_from(i + 1, file, m, the_pkgmap, o,
            import_stmt(acc, m, i, the_pkgmap[file],
                        fix_import_path(the_pkgmap[file].pkg_root, m.filename,
                                        m.body[i].path),
                        o))

get_deps(file, m, modules, the_pkgmap, o, diags) ==
    get_deps_from(1, file, m, the_pkgmap, o,
                  DepsAcc("ok", <<>>, EmptyMap, modules, diags, {}))

(***************************************************************************)
(* The loader's working state, threaded through parse_file and parse_pkg.  *)
(***************************************************************************)
LoaderState ==
    [cache |-> module_cache, diags |-> sess, graph |-> file_graph, pkgs |-> pkgs,
     pkgmap |-> pkgmap, log |-> {}, parse_log |-> parse_log]

Store(S) ==
    /\ module_cache' = S.cache
    /\ sess' = S.diags
    /\ file_graph' = S.graph
    /\ pkgs' = S.pkgs
    /\ pkgmap' = S.pkgmap
    /\ calls' = S.log
    /\ parse_log' = S.parse_log

DepEntry(deps, new_pkgmap) == [deps |-> deps, pkgmap |-> new_pkgmap]

Parsed(tag, err, deps, S) == [tag |-> tag, err |-> err, deps |-> deps, S |-> S]

\* parse one file, resolve its imports, record the AST and the dependency
\* list in the module cache and the edges in the file graph
\* the loader state after get_deps returned g: the sink, the empty packages
\* and the call log are those get_deps left
after_get_deps(S, g) ==
    [S EXCEPT !.diags = g.diags, !.pkgs = g.modules, !.log = @ \cup g.log]

\* a variant of record_file whose cached dependency entry loses the
\* package map fragment
record_file_no_pkgmap(S, file, m, g) ==
    IF g.tag # "ok"
    THEN Parsed(g.tag, Err("package lookup failed", file.path), <<>>,
                after_get_deps(S, g))
    ELSE Parsed("ok", NoErr, g.deps,
                [after_get_deps(S, g) EXCEPT
                    !.pkgmap = Extend(@, g.new_pkgmap),
                    !.cache.ast_cache = Put(@, Canonical(file.path), m),
                    !.cache.dep_cache = Put(@, file, DepEntry(g.deps, EmptyMap)),
                    !.graph = update_file(@, file, g.deps)])

\* lines 678-698 of parse_file: g is what get_deps returned for the module m
record_file(S, file, m, g) ==
    IF g.tag # "ok"
    THEN Parsed(g.tag, Err("package lookup failed", file.path), <<>>,
                after_get_deps(S, g))
    ELSE Parsed("ok", NoErr, g.deps,
                [after_get_deps(S, g) EXCEPT
                    !.pkgmap = Extend(@, g.new_pkgmap),
                    !.cache.ast_cache = Put(@, Canonical(file.path), m),
                    !.cache.dep_cache = Put(@, file, DepEntry(g.deps, g.new_pkgmap)),
                    !.graph = update_file(@, file, g.deps)])

\* parse_file once parse_file_with_session returned p
parsed_file_with(S, file, p, o) ==
    IF ~p.ok THEN Parsed("err", p.err, <<>>, S)
    ELSE record_file([S EXCEPT !.diags = AddDiags(@, p.errors)], file, p.m,
                     get_deps(file, p.m, S.pkgs, S.pkgmap, o,
                              AddDiags(S.diags, p.errors)))

parse_file(S, file, src, o) ==
    parsed_file_with([S EXCEPT !.parse_log = Append(@, file)], file,
                     parse_file_with_session(file.path, src), o)

\* the dependencies of the files parsed so far, the last result being r
parse_pkg_next(done, r) == [r EXCEPT !.deps = done.deps \o @]

RECURSIVE parse_pkg_from(_, _, _, _)
parse_pkg_from(i, files, o, done) ==
    IF i > Len(files) \/ done.tag # "ok" THEN done
    ELSE parse_pkg_from(i + 1, files, o,
            parse_pkg_next(done, parse_file(done.S, files[i].file, files[i].src, o)))

parse_pkg(S, files, o) == parse_pkg_from(1, files, o, Parsed("ok", NoErr, <<>>, S))

(***************************************************************************)
(* The second pass of parse_program.                                       *)
(***************************************************************************)
FixAcc(m, diags, log) == [m |-> m, diags |-> diags, log |-> log]

\* the i-th import statement rewritten after the call r of find_packages
fix_found(acc, i, pkg, fix_path, o, r) ==
    FixAcc([acc.m EXCEPT !.body[i] =
                IF r.tag = "some" THEN ImportStmt(r.info.pkg_path, r.info.pkg_name)
                ELSE ImportStmt(fix_path, pkg.pkg_name)],
           r.diags,
           acc.log \cup {FpCall(pkg.pkg_name, pkg.pkg_root, fix_path, o, r.tag, r.info,
                                r.errs, "fix")})

fix_stmt(acc, i, pkg, fix_path, o) ==
    fix_found(acc, i, pkg, fix_path, o,
              find_packages(StmtPos(acc.m, i), pkg.pkg_name, pkg.pkg_root, fix_path, o,
                            acc.diags))

RECURSIVE fix_from(_, _, _, _, _)
fix_from(i, file, the_pkgmap, o, acc) ==
    IF i > Len(acc.m.body) THEN acc
    ELSE fix_from(i + 1, file, the_pkgmap, o,
            fix_stmt(acc, i, the_pkgmap[file],
                     fix_import_path(the_pkgmap[file].pkg_root, acc.m.filename,
                                     acc.m.body[i].path),
                     o))

\* rewrites the import paths of the module m, a copy of the cached module
fix_rel_import_path_with_file(m, file, the_pkgmap, o, diags) ==
    fix_from(1, file, the_pkgmap, o, FixAcc(m, diags, {}))

PassAcc(tag, the_pkgs, diags, log, ast_cache) ==
    [tag |-> tag, pkgs |-> the_pkgs, diags |-> diags, log |-> log,
     ast_cache |-> ast_cache]

\* a variant of after_fix in which the second pass rewrites the cached
\* module itself
after_fix_in_place(ast_cache, path, m) == Put(ast_cache, path, m)

\* the AST cache once the module m, taken from it under path by
\* .as_ref().clone(), was rewritten: the rewriting went to the copy
after_fix(ast_cache, path, m) == ast_cache

\* the module f.m, rewritten, is appended to the modules of its package
push_module(acc, file, f) ==
    PassAcc(acc.tag,
            Put(acc.pkgs, file.pkg_path,
                IF file.pkg_path \in DOMAIN acc.pkgs
                THEN Append(acc.pkgs[file.pkg_path], f.m) ELSE <<f.m>>),
            f.diags, acc.log \cup f.log,
            after_fix(acc.ast_cache, Canonical(file.path), f.m))

RECURSIVE second_pass(_, _, _, _, _)
second_pass(i, files, the_pkgmap, o, acc) ==
    IF i > Len(files) \/ acc.tag # "ok" THEN acc
    ELSE IF Canonical(files[i].path) \notin DOMAIN acc.ast_cache
    THEN [acc EXCEPT !.tag = "Module not found in module"]
    ELSE IF files[i] \notin DOMAIN the_pkgmap
    THEN [acc EXCEPT !.tag = "file not in pkgmap"]
    ELSE second_pass(i + 1, files, the_pkgmap, o,
            push_module(acc, files[i],
                fix_rel_import_path_with_file(acc.ast_cache[Canonical(files[i].path)],
                                              files[i], the_pkgmap, o, acc.diags)))

RecursiveLoad(cycle) ==
    Diag("error", "RecursiveLoad", DummyPos, "cyclic import statements", cycle)

\* a variant of files_of that lists the files as the graph met them
files_of_unsorted(g, sorted) == paths(g)

\* the file ordering of parse_program and the sink after the cycle check
files_of(g, sorted) == IF sorted.ok THEN sorted.files ELSE paths(g)

ordered_files(g) == files_of(g, toposort(g))

\* a variant of report_cycle that leaves the cycle unreported
report_cycle_dropped(diags, sorted) == diags

report_cycle(diags, sorted) ==
    IF ~sorted.ok THEN AddDiag(diags, RecursiveLoad(sorted.files)) ELSE diags

cycle_check(g, diags) == report_cycle(diags, toposort(file_path_graph(g)))

(***************************************************************************)
(* The initial states: every file text, option set and unreadable file of  *)
(* the bounds, an empty module cache, no load running.                     *)
(***************************************************************************)
\* how many import statements a dependency file holds at most
MaxDepImports == 1

\* the import lists of at most n statements a file may hold, in ImportOrder
ImportLists(f, n) ==
    {SelectSeq(ImportOrder, LAMBDA p : p \in S) :
        S \in {T \in SUBSET Candidates(f) : Cardinality(T) <= n}}

Options ==
    [load_packages : BOOLEAN, load_plugins : BOOLEAN, vendor_dirs : {vendor_dirs}]

EmptyCache == [ast_cache |-> EmptyMap, dep_cache |-> EmptyMap]

\* no load has run
LoaderIdle ==
    /\ module_cache = EmptyCache
    /\ sess = <<>>
    /\ file_graph = EmptyGraph
    /\ pkgs = EmptyMap
    /\ pkgmap = EmptyMap
    /\ unparsed_file = <<>>
    /\ parsed_file = {}
    /\ pc = "idle"
    /\ calls = {}
    /\ parse_log = <<>>
    /\ step = "init"
    /\ results = <<>>

\* no writer has touched the sink
SinkIdle ==
    /\ diagnostics = <<>>
    /\ err_count = 0
    /\ warn_count = 0
    /\ lock = "free"
    /\ writer = [w \in Writers |-> [pc |-> "idle", diag |-> NoDiag, slot |-> 0, done |-> 0]]
    /\ added = {}

\* an RwLock nobody holds
NoLock == [writer |-> FALSE, readers |-> {}]

\* what a reader holding both read guards sees
Snapshot(cache, graph) == [cache |-> cache, graph |-> graph]

\* no parse_file is running beside a reader
RecordIdle ==
    /\ cache_lock = NoLock
    /\ graph_lock = NoLock
    /\ recording = [pc |-> "idle", file |-> PkgFile("", ""),
                    m |-> parse_module(<<>>), deps |-> <<>>, new_pkgmap |-> EmptyMap]
    /\ observer = [pc |-> "idle", seen |-> Snapshot(EmptyCache, EmptyGraph)]

(***************************************************************************)
(* The records of the scope tree.                                          *)
(***************************************************************************)
\* Option<SymbolRef>::None
NoSymbol == 0

ScopeRef(id, kind) == [id |-> id, kind |-> kind]

Position(filename, line, column) ==
    [filename |-> filename, line |-> line, column |-> column]

\* RootSymbolScope::new
RootSymbolScope(pkgpath, filename, owner) ==
    [pkgpath |-> pkgpath, filename |-> filename, owner |-> owner,
     children |-> EmptyMap, refs |-> <<>>]

\* LocalSymbolScope::new
LocalSymbolScope(parent, start, end) ==
    [parent |-> parent, owner |-> NoSymbol, children |-> <<>>, defs |-> EmptyMap,
     refs |-> <<>>, start |-> start, end |-> end]

\* ScopeData::default
EmptyScopeData == [root_map |-> EmptyMap, locals |-> <<>>, roots |-> <<>>]

NoScopeStep == [op |-> "none", scope |-> ScopeRef(0, "Root")]

\* no scope is allocated
ScopeIdle ==
    /\ scope_data = EmptyScopeData
    /\ symbol_data = EmptyMap
    /\ scope_abort = FALSE
    /\ scope_step = NoScopeStep

\* contains_pos was not asked
ProbeIdle ==
    probe = [asked |-> FALSE, kind |-> "Root", filename |-> <<>>,
             start |-> Position(<<>>, 0, 0), end |-> Position(<<>>, 0, 0),
             pos |-> Position(<<>>, 0, 0), inside |-> FALSE]

\* a placeholder for an expression the tokens do not give
Missing == [node |-> "Missing"]

\* parse_expr was not asked
ParserIdle ==
    parser = [asked |-> FALSE, src |-> <<>>, expr |-> Missing]

\* ExecProgramArgs, with the build feature and the environment beside them
ExecArgs(compile_only, fast_eval, env_fast_eval, llvm) ==
    [compile_only |-> compile_only, fast_eval |-> fast_eval,
     env_fast_eval |-> env_fast_eval, llvm |-> llvm]

NoArgs == ExecArgs(FALSE, FALSE, FALSE, FALSE)

\* Result<ExecProgramResult>: tag is "none" (not returned), "ok" or "err"
ExecResult(tag, err) == [tag |-> tag, err |-> err]

NoResult == ExecResult("none", "")

\* execute has not been called
ExecIdle ==
    exec = [pc |-> "idle", args |-> NoArgs, sess |-> <<>>, scope |-> <<>>,
            trace |-> <<>>, result |-> NoResult]

\* no loader thread has been started
ThreadsIdle ==
    threads = [run |-> <<>>, cached |-> {}, policy |-> "readers", faulty |-> FALSE]

Init ==
    /\ \E la \in ImportLists("a", MaxImports) :
       \E lb \in ImportLists("b", MaxDepImports) :
       \E lc \in ImportLists("c", MaxDepImports) :
           source = [f \in SourceFiles |->
                        IF f = "a" THEN la ELSE IF f = "b" THEN lb ELSE lc]
    /\ unreadable \in {"none", "a", "b"}
    /\ k_code \in BOOLEAN
    /\ opts \in Options
    /\ LoaderIdle
    /\ SinkIdle
    /\ RecordIdle
    /\ ScopeIdle
    /\ ProbeIdle
    /\ ParserIdle
    /\ ExecIdle
    /\ ThreadsIdle

(***************************************************************************)
(* The steps of one load.                                                  *)
(***************************************************************************)
Program(root, the_pkgs) == [root |-> root, pkgs |-> the_pkgs]

NoProgram == Program("", EmptyMap)

\* what a load leaves behind: status is "ok" (Ok(LoadProgramResult)),
\* "err" (Err) or "panic"
LoadResult(status, err, program, files, S) ==
    [status |-> status, err |-> err, program |-> program, errors |-> S.diags,
     files |-> files, paths |-> [i \in 1..Len(files) |-> files[i].path],
     graph |-> S.graph, pkgmap |-> S.pkgmap, parse_log |-> S.parse_log,
     cache |-> S.cache, opts |-> opts]

\* the load ends: its result is recorded and the loader state is kept
Return(status, err, program, files, S) ==
    /\ Store(S)
    /\ results' = Append(results, LoadResult(status, err, program, files, S))
    /\ pc' = IF status = "panic" THEN "crashed" ELSE "idle"
    /\ unparsed_file' = <<>>
    /\ parsed_file' = {}

\* the files of the entry with the text k_code_list gives them
entry_files ==
    [i \in 1..Len(EntryFiles) |->
        [file |-> PkgFile(EntryFiles[i], MAIN_PKG),
         src |-> IF k_code THEN SomeCode(source[EntryFiles[i]]) ELSE NoCode]]

\* load_program: a new Loader over the shared module cache with a fresh
\* session and file graph; parse_entry registers the entry files in pkgmap
load_program ==
    /\ pc = "idle"
    /\ Len(results) < MaxLoads
    /\ sess' = <<>>
    /\ file_graph' = EmptyGraph
    /\ pkgs' = EmptyMap
    /\ pkgmap' = [f \in {entry_files[i].file : i \in DOMAIN entry_files} |->
                     Pkg(EntryName, EntryRoot)]
    /\ unparsed_file' = <<>>
    /\ parsed_file' = {}
    /\ parse_log' = <<>>
    /\ calls' = {}
    /\ step' = "load_program"
    /\ pc' = "entry"
    /\ UNCHANGED <<world, module_cache, results, beside_loader>>

\* parse_entry: parse_pkg over the entry files seeds the worklist
parse_entry_files ==
    /\ pc = "entry"
    /\ step' = "parse_pkg"
    /\ LET Seeded(r) ==
               IF r.tag = "ok"
               THEN /\ Store(r.S)
                    /\ unparsed_file' = r.deps
                    /\ parsed_file' = {}
                    /\ pc' = "bfs"
                    /\ UNCHANGED results
               ELSE Return(IF r.tag = "err" THEN "err" ELSE "panic", r.err,
                           NoProgram, <<>>, r.S)
       IN Seeded(parse_pkg(LoaderState, entry_files, opts))
    /\ UNCHANGED <<world, beside_loader>>

\* the dependencies a processed file puts on the worklist
enqueue(queue, visited, deps) ==
    queue \o SelectSeq(deps, LAMBDA d : d \notin visited)

\* a variant of first_visit that takes every file for a new one
first_visit_always(visited, file) == TRUE

\* parsed_file.insert(file.clone()): is the file new to the visited set
first_visit(visited, file) == file \notin visited

\* parse_entry: the file at the head of the worklist was visited before
skip_visited ==
    /\ pc = "bfs"
    /\ unparsed_file # <<>>
    /\ ~first_visit(parsed_file, Head(unparsed_file))
    /\ unparsed_file' = Tail(unparsed_file)
    /\ calls' = {}
    /\ step' = "skip"
    /\ UNCHANGED <<world, module_cache, sess, file_graph, pkgs, pkgmap,
                   parsed_file, pc, parse_log, results, beside_loader>>

\* a variant of cached_deps that always computes the dependencies again
cached_deps_recomputed(file, m, S, o) ==
    get_deps(file, m, S.pkgs, S.pkgmap, o, S.diags)

\* the dependency list of a cached module: dep_cache, else get_deps
cached_deps(file, m, S, o) ==
    IF file \in DOMAIN S.cache.dep_cache
    THEN DepsAcc("ok", S.cache.dep_cache[file].deps, S.cache.dep_cache[file].pkgmap,
                 S.pkgs, S.diags, {})
    ELSE get_deps(file, m, S.pkgs, S.pkgmap, o, S.diags)

\* parse_entry: the AST of the file at the head of the worklist is cached
use_cached ==
    /\ pc = "bfs"
    /\ unparsed_file # <<>>
    /\ first_visit(parsed_file, Head(unparsed_file))
    /\ Canonical(Head(unparsed_file).path) \in DOMAIN module_cache.ast_cache
    /\ step' = "cached"
    /\ LET Served(file, g) ==
               IF g.tag = "ok"
               THEN /\ Store([after_get_deps(LoaderState, g) EXCEPT
                                 !.pkgmap = Extend(@, g.new_pkgmap),
                                 !.graph = update_file(@, file, g.deps)])
                    /\ unparsed_file' = enqueue(Tail(unparsed_file),
                                                parsed_file \cup {file}, g.deps)
                    /\ parsed_file' = parsed_file \cup {file}
                    /\ UNCHANGED <<pc, results>>
               ELSE Return("panic", Err("called unwrap on an Err value", file.path),
                           NoProgram, <<>>, after_get_deps(LoaderState, g))
       IN Served(Head(unparsed_file),
                 cached_deps(Head(unparsed_file),
                             module_cache.ast_cache[Canonical(Head(unparsed_file).path)],
                             LoaderState, opts))
    /\ UNCHANGED <<world, beside_loader>>

\* parse_entry: the file at the head of the worklist has no cached AST
parse_fresh ==
    /\ pc = "bfs"
    /\ unparsed_file # <<>>
    /\ first_visit(parsed_file, Head(unparsed_file))
    /\ Canonical(Head(unparsed_file).path) \notin DOMAIN module_cache.ast_cache
    /\ step' = "fresh"
    /\ LET Fresh(file, r) ==
               IF r.tag = "ok"
               THEN /\ Store(r.S)
                    /\ unparsed_file' = enqueue(Tail(unparsed_file),
                                                parsed_file \cup {file}, r.deps)
                    /\ parsed_file' = parsed_file \cup {file}
                    /\ UNCHANGED <<pc, results>>
               ELSE Return(IF r.tag = "err" THEN "err" ELSE "panic", r.err,
                           NoProgram, <<>>, r.S)
       IN Fresh(Head(unparsed_file),
                parse_file(LoaderState, Head(unparsed_file), NoCode, opts))
    /\ UNCHANGED <<world, beside_loader>>

\* parse_program after the traversal: order the files, report a cycle,
\* rewrite the imports of a copy of every module and build the Program
finish_program ==
    /\ pc = "bfs"
    /\ unparsed_file = <<>>
    /\ step' = "finish"
    /\ LET Built(files, pass) ==
               IF pass.tag = "ok"
               THEN Return("ok", NoErr, Program(EntryRoot, pass.pkgs), files,
                           [LoaderState EXCEPT !.diags = pass.diags,
                                               !.pkgs = pass.pkgs, !.log = pass.log,
                                               !.cache.ast_cache = pass.ast_cache])
               ELSE Return("panic", Err(pass.tag, ""), NoProgram, <<>>,
                           [LoaderState EXCEPT !.diags = pass.diags,
                                               !.pkgs = pass.pkgs, !.log = pass.log,
                                               !.cache.ast_cache = pass.ast_cache])
           Ordered(files) ==
               Built(files,
                     second_pass(1, files, pkgmap, opts,
                                 PassAcc("ok", pkgs, cycle_check(file_graph, sess), {},
                                         module_cache.ast_cache)))
       IN Ordered(ordered_files(file_graph))
    /\ UNCHANGED <<world, beside_loader>>

Next ==
    \/ load_program
    \/ parse_entry_files
    \/ skip_visited
    \/ use_cached
    \/ parse_fresh
    \/ finish_program

Spec == Init /\ [][Next]_vars

(***************************************************************************)
(* Loads whose dependency files import an empty package or a missing one,  *)
(* or reach one file in two package contexts: the steps are those of Spec. *)
(***************************************************************************)
\* how many import statements a file of these loads holds at most
MaxWarmImports == 2

\* the import paths each file of these loads may hold
WarmCandidates(f) ==
    CASE f = "a" -> {"..pb", "pa", "pc", "vendor.pc"}
      [] f = "b" -> {"pa", "pc", "pe", "missing", Broken}
      [] OTHER   -> {"pc", "pio"}

\* the texts of at most n statements over S, the imports in ImportOrder
ImportListsOver(S, n) ==
    {SelectSeq(ImportOrder \o <<Broken>>, LAMBDA p : p \in T) :
        T \in {U \in SUBSET S : Cardinality(U) <= n}}

WarmInit ==
    /\ \E la \in ImportListsOver(WarmCandidates("a"), MaxWarmImports) :
       \E lb \in ImportListsOver(WarmCandidates("b"), MaxWarmImports) :
       \E lc \in ImportListsOver(WarmCandidates("c"), MaxDepImports) :
           source = [f \in SourceFiles |->
                        IF f = "a" THEN la ELSE IF f = "b" THEN lb ELSE lc]
    /\ unreadable = "none"
    /\ k_code = FALSE
    /\ opts = [load_packages |-> TRUE, load_plugins |-> FALSE,
               vendor_dirs |-> vendor_dirs]
    /\ LoaderIdle
    /\ SinkIdle
    /\ RecordIdle
    /\ ScopeIdle
    /\ ProbeIdle
    /\ ParserIdle
    /\ ExecIdle
    /\ ThreadsIdle

SpecWarm == WarmInit /\ [][Next]_vars

(***************************************************************************)
(* Two loads of one import graph that discover the dependencies in another *)
(* order: between the loads the import statements of a file are written in *)
(* another order and the second load starts from an empty module cache.    *)
(***************************************************************************)
\* the sequences that hold the elements of seq in another order
Reorderings(seq) ==
    {[i \in DOMAIN seq |-> seq[p[i]]] :
        p \in {q \in [DOMAIN seq -> DOMAIN seq] :
                  \A i, j \in DOMAIN seq : q[i] = q[j] => i = j}} \ {seq}

reorder_imports ==
    /\ pc = "idle"
    /\ Len(results) = 1
    /\ step # "reorder"
    /\ \E f \in SourceFiles :
       \E text \in Reorderings(source[f]) :
           source' = [source EXCEPT ![f] = text]
    /\ module_cache' = EmptyCache
    /\ step' = "reorder"
    /\ UNCHANGED <<unreadable, k_code, opts, sess, file_graph, pkgs, pkgmap,
                   unparsed_file, parsed_file, pc, calls, parse_log, results,
                   beside_loader>>

OrderNext == Next \/ reorder_imports

SpecOrder == WarmInit /\ [][OrderNext]_vars

(***************************************************************************)
(* The diagnostics sink under concurrent writers.  A writer takes the      *)
(* exclusive section (sess.1.write(), the &mut self of the handler), runs  *)
(* add_err_diagnostic or add_warn_diagnostic, and leaves the section when  *)
(* the guard is dropped.  Vec::push is two steps: it reads the length,     *)
(* then stores the element at that index and sets the new length.          *)
(***************************************************************************)
\* a variant of can_write that lets every writer in
can_write_always(holder) == TRUE

\* RwLock::write: the exclusive section is entered only when nobody is in it
can_write(holder) == holder = "free"

\* Vec::push, second step: the element goes to the index read in the first
push(vec, slot, diag) == SubSeq(vec, 1, slot - 1) \o <<diag>>

\* the writer w asks for the exclusive section to add its next diagnostic
sink_write(w) ==
    /\ writer[w].pc = "idle"
    /\ writer[w].done < MaxAdds
    /\ can_write(lock)
    /\ lock' = w
    /\ \E level \in {"error", "warning"} :
           writer' = [writer EXCEPT ![w].pc = "locked",
                                    ![w].diag = SinkDiag(w, writer[w].done + 1, level)]
    /\ UNCHANGED <<diagnostics, err_count, warn_count, added, beside_sink>>

\* self.diagnostics.push(diag), first step
push_reserve(w) ==
    /\ writer[w].pc = "locked"
    /\ writer' = [writer EXCEPT ![w].pc = "reserved",
                                ![w].slot = Len(diagnostics) + 1]
    /\ UNCHANGED <<diagnostics, err_count, warn_count, lock, added, beside_sink>>

\* self.diagnostics.push(diag), second step
push_store(w) ==
    /\ writer[w].pc = "reserved"
    /\ diagnostics' = push(diagnostics, writer[w].slot, writer[w].diag)
    /\ writer' = [writer EXCEPT ![w].pc = "pushed"]
    /\ UNCHANGED <<err_count, warn_count, lock, added, beside_sink>>

\* self.err_count += 1
add_err_diagnostic(w) ==
    /\ writer[w].pc = "pushed"
    /\ writer[w].diag.level = "error"
    /\ err_count' = err_count + 1
    /\ writer' = [writer EXCEPT ![w].pc = "counted"]
    /\ UNCHANGED <<diagnostics, warn_count, lock, added, beside_sink>>

\* self.warn_count += 1
add_warn_diagnostic(w) ==
    /\ writer[w].pc = "pushed"
    /\ writer[w].diag.level = "warning"
    /\ warn_count' = warn_count + 1
    /\ writer' = [writer EXCEPT ![w].pc = "counted"]
    /\ UNCHANGED <<diagnostics, err_count, lock, added, beside_sink>>

\* the guard is dropped: the add has returned
sink_unlock(w) ==
    /\ writer[w].pc = "counted"
    /\ lock' = IF lock = w THEN "free" ELSE lock
    /\ added' = added \cup {writer[w].diag}
    /\ writer' = [writer EXCEPT ![w].pc = "idle", ![w].done = @ + 1]
    /\ UNCHANGED <<diagnostics, err_count, warn_count, beside_sink>>

\* the sink is written while no load runs
SinkInit ==
    /\ source = [f \in SourceFiles |-> <<>>]
    /\ unreadable = "none"
    /\ k_code = FALSE
    /\ opts = [load_packages |-> TRUE, load_plugins |-> FALSE,
               vendor_dirs |-> vendor_dirs]
    /\ LoaderIdle
    /\ SinkIdle
    /\ RecordIdle
    /\ ScopeIdle
    /\ ProbeIdle
    /\ ParserIdle
    /\ ExecIdle
    /\ ThreadsIdle

SinkNext ==
    \E w \in Writers :
        \/ sink_write(w)
        \/ push_reserve(w)
        \/ push_store(w)
        \/ add_err_diagnostic(w)
        \/ add_warn_diagnostic(w)
        \/ sink_unlock(w)

SpecSink == SinkInit /\ [][SinkNext]_vars

(***************************************************************************)
(* parse_file beside a reader.  The module cache and the file graph are    *)
(* shared handles (Arc<RwLock<..>>); a reader that holds the read guard of *)
(* both sees one state of the pair.  parse_file takes the write guard of   *)
(* the cache for lines 680-690, drops it, and takes the write guard of the *)
(* file graph for lines 692-697.                                           *)
(***************************************************************************)
\* RwLock::write returns once no guard is out
write_free(l) == ~l.writer /\ l.readers = {}

\* RwLock::read returns once no write guard is out
read_free(l) == ~l.writer

\* the files parse_file may be handed: those of pkgmap not handed before
Recordable == {f \in DOMAIN pkgmap : f \notin Range(parse_log)}

\* lines 672-679: the file is parsed, its imports are resolved and the
\* package map is extended; an Err of either returns from parse_file
record_parse(f) ==
    /\ recording.pc = "idle"
    /\ f \in Recordable
    /\ parse_log' = Append(parse_log, f)
    /\ step' = "parse_file"
    /\ LET Got(p, g) ==
               IF p.ok /\ g.tag = "ok"
               THEN /\ recording' = [pc |-> "parsed", file |-> f, m |-> p.m,
                                     deps |-> g.deps, new_pkgmap |-> g.new_pkgmap]
                    /\ pkgmap' = Extend(pkgmap, g.new_pkgmap)
                    /\ sess' = g.diags
                    /\ pkgs' = g.modules
                    /\ calls' = g.log
               ELSE /\ sess' = IF p.ok THEN g.diags ELSE sess
                    /\ pkgs' = IF p.ok THEN g.modules ELSE pkgs
                    /\ calls' = IF p.ok THEN g.log ELSE {}
                    /\ UNCHANGED <<recording, pkgmap>>
           Parse(p) == Got(p, get_deps(f, p.m, pkgs, pkgmap, opts, sess))
       IN Parse(parse_file_with_session(f.path, NoCode))
    /\ UNCHANGED <<world, module_cache, file_graph, unparsed_file, parsed_file, pc,
                   results, beside_record, cache_lock, graph_lock, observer>>

\* lines 680-688: under the write guard of the cache, the AST and the
\* dependency list are inserted
record_cache_write ==
    /\ recording.pc = "parsed"
    /\ write_free(cache_lock)
    /\ cache_lock' = [cache_lock EXCEPT !.writer = TRUE]
    /\ module_cache' =
           [module_cache EXCEPT
               !.ast_cache = Put(@, Canonical(recording.file.path), recording.m),
               !.dep_cache = Put(@, recording.file,
                                 DepEntry(recording.deps, recording.new_pkgmap))]
    /\ recording' = [recording EXCEPT !.pc = "cache_written"]
    /\ UNCHANGED <<world, sess, file_graph, pkgs, pkgmap, unparsed_file, parsed_file,
                   pc, calls, parse_log, step, results, beside_record, graph_lock,
                   observer>>

\* line 690: the match ends and the write guard of the cache is dropped
record_cache_unlock ==
    /\ recording.pc = "cache_written"
    /\ cache_lock' = [cache_lock EXCEPT !.writer = FALSE]
    /\ recording' = [recording EXCEPT !.pc = "cache_done"]
    /\ UNCHANGED <<loader_vars, beside_record, graph_lock, observer>>

\* lines 692-694: under the write guard of the file graph, update_file
record_graph_write ==
    /\ recording.pc = "cache_done"
    /\ write_free(graph_lock)
    /\ graph_lock' = [graph_lock EXCEPT !.writer = TRUE]
    /\ file_graph' = update_file(file_graph, recording.file, recording.deps)
    /\ recording' = [recording EXCEPT !.pc = "graph_written"]
    /\ UNCHANGED <<world, module_cache, sess, pkgs, pkgmap, unparsed_file,
                   parsed_file, pc, calls, parse_log, step, results, beside_record,
                   cache_lock, observer>>

\* lines 697-698: the write guard of the file graph is dropped, Ok(deps)
record_graph_unlock ==
    /\ recording.pc = "graph_written"
    /\ graph_lock' = [graph_lock EXCEPT !.writer = FALSE]
    /\ recording' = [recording EXCEPT !.pc = "idle"]
    /\ UNCHANGED <<loader_vars, beside_record, cache_lock, observer>>

\* the reader takes the read guard of the module cache
observe_cache(o) ==
    /\ observer.pc = "idle"
    /\ read_free(cache_lock)
    /\ cache_lock' = [cache_lock EXCEPT !.readers = @ \cup {o}]
    /\ observer' = [observer EXCEPT !.pc = "cache"]
    /\ UNCHANGED <<loader_vars, beside_record, graph_lock, recording>>

\* holding it, the reader takes the read guard of the file graph and looks
\* at both
observe_graph(o) ==
    /\ observer.pc = "cache"
    /\ read_free(graph_lock)
    /\ graph_lock' = [graph_lock EXCEPT !.readers = @ \cup {o}]
    /\ observer' = [observer EXCEPT !.pc = "both",
                                    !.seen = Snapshot(module_cache, file_graph)]
    /\ UNCHANGED <<loader_vars, beside_record, cache_lock, recording>>

\* the reader drops both read guards
observe_done(o) ==
    /\ observer.pc = "both"
    /\ cache_lock' = [cache_lock EXCEPT !.readers = @ \ {o}]
    /\ graph_lock' = [graph_lock EXCEPT !.readers = @ \ {o}]
    /\ observer' = [observer EXCEPT !.pc = "idle"]
    /\ UNCHANGED <<loader_vars, beside_record, recording>>

\* an empty cache and file graph, the entry file registered in pkgmap as
\* parse_entry registers it
RecordInit ==
    /\ \E la \in ImportLists("a", MaxImports) :
       \E lb \in ImportLists("b", MaxDepImports) :
       \E lc \in ImportLists("c", MaxDepImports) :
           source = [f \in SourceFiles |->
                        IF f = "a" THEN la ELSE IF f = "b" THEN lb ELSE lc]
    /\ unreadable = "none"
    /\ k_code = FALSE
    /\ opts = [load_packages |-> TRUE, load_plugins |-> FALSE,
               vendor_dirs |-> vendor_dirs]
    /\ module_cache = EmptyCache
    /\ sess = <<>>
    /\ file_graph = EmptyGraph
    /\ pkgs = EmptyMap
    /\ pkgmap = [f \in {entry_files[i].file : i \in DOMAIN entry_files} |->
                    Pkg(EntryName, EntryRoot)]
    /\ unparsed_file = <<>>
    /\ parsed_file = {}
    /\ pc = "idle"
    /\ calls = {}
    /\ parse_log = <<>>
    /\ step = "init"
    /\ results = <<>>
    /\ SinkIdle
    /\ RecordIdle
    /\ ScopeIdle
    /\ ProbeIdle
    /\ ParserIdle
    /\ ExecIdle
    /\ ThreadsIdle

RecordNext ==
    \/ \E f \in DOMAIN pkgmap : record_parse(f)
    \/ record_cache_write
    \/ record_cache_unlock
    \/ record_graph_write
    \/ record_graph_unlock
    \/ observe_cache("reader")
    \/ observe_graph("reader")
    \/ observe_done("reader")

SpecRecord == RecordInit /\ [][RecordNext]_vars

(***************************************************************************)
(* The scope tree of the resolver: ScopeData and its two kinds of scope.   *)
(* Symbols live in KCLSymbolData; a scope holds symbol references only.    *)
(***************************************************************************)
\* how many local scopes the tree holds at most, and how many symbol
\* references its scopes hold at most as definitions, references and owners
\* of local scopes
MaxLocals == 2
MaxHeld == 2

\* the packages of the program
Packages == {MAIN_PKG}

Names == {"x", "y"}

NameOrder == <<"x", "y">>

\* the names local definitions are added under
DefNames == {"x"}

\* symbol 1 is a package, symbol 2 a schema, 3 and 4 are their attributes,
\* 5 and 6 are the symbols of local definitions
PackageSymbols == {1}
OwnerSymbols == {1, 2}
DefSymbols == {5, 6}
RefSymbols == {5}
Symbols == 1..6

AttributesOf(symbol) ==
    IF symbol = 1 THEN ("y" :> 3)
    ELSE IF symbol = 2 THEN ("x" :> 4)
    ELSE EmptyMap

\* the symbol data in which exactly the symbols of live resolve
SymbolData(live) == [symbol \in live |-> [attrs |-> AttributesOf(symbol)]]

\* KCLSymbolData::get_symbol
get_symbol(symbols, symbol_ref) ==
    IF symbol_ref \in DOMAIN symbols
    THEN [some |-> TRUE, symbol |-> symbols[symbol_ref]]
    ELSE [some |-> FALSE, symbol |-> [attrs |-> EmptyMap]]

\* Symbol::get_attribute: the attribute of that name, or None
get_attribute(symbol, name) ==
    IF name \in DOMAIN symbol.attrs THEN symbol.attrs[name] ELSE NoSymbol

\* Symbol::get_all_attributes
get_all_attributes(symbol) ==
    [i \in 1..Len(SelectSeq(NameOrder, LAMBDA n : n \in DOMAIN symbol.attrs)) |->
        symbol.attrs[SelectSeq(NameOrder, LAMBDA n : n \in DOMAIN symbol.attrs)[i]]]

\* ScopeData::get_scope: does the reference resolve
get_scope(data, scope) ==
    IF scope.kind = "Local" THEN scope.id \in DOMAIN data.locals
    ELSE scope.id \in DOMAIN data.roots

\* RootSymbolScope::get_defs and LocalSymbolScope::get_defs
get_defs(data, scope) ==
    IF scope.kind = "Local"
    THEN [some |-> TRUE, defs |-> data.locals[scope.id].defs]
    ELSE [some |-> FALSE, defs |-> EmptyMap]

\* RootSymbolScope::look_up_def
root_look_up_def(root, name, symbols) ==
    IF ~get_symbol(symbols, root.owner).some THEN NoSymbol
    ELSE get_attribute(get_symbol(symbols, root.owner).symbol, name)

RECURSIVE local_look_up_def(_, _, _, _)
\* LocalSymbolScope::look_up_def
local_look_up_def(local, name, data, symbols) ==
    IF name \in DOMAIN local.defs THEN local.defs[name]
    ELSE IF local.owner # NoSymbol /\ ~get_symbol(symbols, local.owner).some
    THEN NoSymbol
    ELSE IF /\ local.owner # NoSymbol
            /\ get_attribute(get_symbol(symbols, local.owner).symbol, name) # NoSymbol
    THEN get_attribute(get_symbol(symbols, local.owner).symbol, name)
    ELSE IF ~get_scope(data, local.parent) THEN NoSymbol
    ELSE IF local.parent.kind = "Root"
    THEN root_look_up_def(data.roots[local.parent.id], name, symbols)
    ELSE local_look_up_def(data.locals[local.parent.id], name, data, symbols)

\* look_up_def of the scope the reference resolves to
look_up_def(scope, name, data, symbols) ==
    IF scope.kind = "Root" THEN root_look_up_def(data.roots[scope.id], name, symbols)
    ELSE local_look_up_def(data.locals[scope.id], name, data, symbols)

\* the values of an IndexMap over names
Values(defs) ==
    [i \in 1..Len(SelectSeq(NameOrder, LAMBDA n : n \in DOMAIN defs)) |->
        defs[SelectSeq(NameOrder, LAMBDA n : n \in DOMAIN defs)[i]]]

\* a variant of sort that leaves the order alone
sort_skipped(result) == result

\* Vec<SymbolRef>::sort
sort(result) == SortSeq(result, LAMBDA a, b : a < b)

\* RootSymbolScope::get_all_defs
root_get_all_defs(root, symbols) ==
    IF get_symbol(symbols, root.owner).some
    THEN get_all_attributes(get_symbol(symbols, root.owner).symbol)
    ELSE <<>>

RECURSIVE local_get_all_defs(_, _, _)
\* LocalSymbolScope::get_all_defs
local_get_all_defs(local, data, symbols) ==
    sort(Values(local.defs)
         \o (IF local.owner # NoSymbol /\ get_symbol(symbols, local.owner).some
             THEN get_all_attributes(get_symbol(symbols, local.owner).symbol)
             ELSE <<>>)
         \o (IF ~get_scope(data, local.parent) THEN <<>>
             ELSE IF local.parent.kind = "Root"
             THEN root_get_all_defs(data.roots[local.parent.id], symbols)
             ELSE local_get_all_defs(data.locals[local.parent.id], data, symbols)))

\* get_all_defs of the scope the reference resolves to
get_all_defs(scope, data, symbols) ==
    IF scope.kind = "Root" THEN root_get_all_defs(data.roots[scope.id], symbols)
    ELSE local_get_all_defs(data.locals[scope.id], data, symbols)

Done(data) == [data |-> data, abort |-> FALSE]

Unreachable(data) == [data |-> data, abort |-> TRUE]

\* a variant of add_def_to_scope that takes a definition aimed at a Root
\* scope for a reference
add_def_to_scope_as_ref(data, scope, name, symbol) ==
    IF scope.kind = "Local"
    THEN Done(IF scope.id \in DOMAIN data.locals
              THEN [data EXCEPT !.locals[scope.id].defs = Put(@, name, symbol)]
              ELSE data)
    ELSE Done(IF scope.id \in DOMAIN data.roots
              THEN [data EXCEPT !.roots[scope.id].refs = Append(@, symbol)]
              ELSE data)

\* ScopeData::add_def_to_scope
add_def_to_scope(data, scope, name, symbol) ==
    IF scope.kind = "Local"
    THEN Done(IF scope.id \in DOMAIN data.locals
              THEN [data EXCEPT !.locals[scope.id].defs = Put(@, name, symbol)]
              ELSE data)
    ELSE Unreachable(data)

\* ScopeData::add_ref_to_scope
add_ref_to_scope(data, scope, symbol) ==
    IF scope.kind = "Local"
    THEN IF scope.id \in DOMAIN data.locals
         THEN [data EXCEPT !.locals[scope.id].refs = Append(@, symbol)] ELSE data
    ELSE IF scope.id \in DOMAIN data.roots
         THEN [data EXCEPT !.roots[scope.id].refs = Append(@, symbol)] ELSE data

\* ScopeData::set_owner_to_scope
set_owner_to_scope(data, scope, owner) ==
    IF scope.kind = "Local"
    THEN IF scope.id \in DOMAIN data.locals
         THEN [data EXCEPT !.locals[scope.id].owner = owner] ELSE data
    ELSE IF scope.id \in DOMAIN data.roots
         THEN [data EXCEPT !.roots[scope.id].owner = owner] ELSE data

\* ScopeData::alloc_root_scope: the arena hands out the next index
alloc_root_scope(data, root) ==
    [data EXCEPT !.roots = Append(@, root),
                 !.root_map = Put(@, root.pkgpath,
                                  ScopeRef(Len(data.roots) + 1, "Root"))]

\* a variant of alloc_local_scope that stores the scope as its own parent
alloc_local_scope_own_parent(data, local) ==
    [data EXCEPT !.locals =
        Append(@, [local EXCEPT !.parent = ScopeRef(Len(data.locals) + 1, "Local")])]

\* ScopeData::alloc_local_scope
alloc_local_scope(data, local) == [data EXCEPT !.locals = Append(@, local)]

\* the references alloc_root_scope and alloc_local_scope have handed out
ScopeRefs(data) ==
    {ScopeRef(i, "Root") : i \in DOMAIN data.roots}
        \cup {ScopeRef(i, "Local") : i \in DOMAIN data.locals}

LocalRefs(data) == {r \in ScopeRefs(data) : r.kind = "Local"}

RootRefs(data) == {r \in ScopeRefs(data) : r.kind = "Root"}

RECURSIVE Sum(_, _)
Sum(f, S) == IF S = {} THEN 0
             ELSE LET x == CHOOSE y \in S : TRUE IN f[x] + Sum(f, S \ {x})

DefCount(data) ==
    Sum([i \in DOMAIN data.locals |-> Cardinality(DOMAIN data.locals[i].defs)],
        DOMAIN data.locals)

RefCount(data) ==
    Sum([i \in DOMAIN data.locals |-> Len(data.locals[i].refs)], DOMAIN data.locals)
        + Sum([i \in DOMAIN data.roots |-> Len(data.roots[i].refs)], DOMAIN data.roots)

OwnerCount(data) ==
    Cardinality({i \in DOMAIN data.locals : data.locals[i].owner # NoSymbol})

\* the symbol references the scopes hold beside the owners of the roots
Held(data) == DefCount(data) + RefCount(data) + OwnerCount(data)

ScopeFile == <<"pkg", "main.k">>

ScopeStep(op, scope) == [op |-> op, scope |-> scope]

\* the namer allocates the root scope of a package, owned by its symbol
call_alloc_root_scope ==
    /\ ~scope_abort
    /\ \E pkgpath \in Packages \ DOMAIN scope_data.root_map, owner \in PackageSymbols :
           scope_data' = alloc_root_scope(scope_data,
                                          RootSymbolScope(pkgpath, ScopeFile, owner))
    /\ scope_step' = ScopeStep("alloc_root_scope",
                               ScopeRef(Len(scope_data.roots) + 1, "Root"))
    /\ UNCHANGED <<symbol_data, scope_abort, beside_scope>>

\* a local scope is allocated under a scope allocated before
call_alloc_local_scope ==
    /\ ~scope_abort
    /\ Len(scope_data.locals) < MaxLocals
    /\ \E parent \in ScopeRefs(scope_data) :
           scope_data' = alloc_local_scope(scope_data,
                             LocalSymbolScope(parent, Position(ScopeFile, 1, 1),
                                              Position(ScopeFile, 9, 1)))
    /\ scope_step' = ScopeStep("alloc_local_scope",
                               ScopeRef(Len(scope_data.locals) + 1, "Local"))
    /\ UNCHANGED <<symbol_data, scope_abort, beside_scope>>

call_add_def_to_scope ==
    /\ ~scope_abort
    /\ \E scope \in ScopeRefs(scope_data), name \in DefNames, symbol \in DefSymbols :
           LET Added(r) ==
                   /\ Held(r.data) <= MaxHeld
                   /\ scope_data' = r.data
                   /\ scope_abort' = r.abort
           IN /\ Added(add_def_to_scope(scope_data, scope, name, symbol))
              /\ scope_step' = ScopeStep("add_def_to_scope", scope)
    /\ UNCHANGED <<symbol_data, beside_scope>>

call_add_ref_to_scope ==
    /\ ~scope_abort
    /\ Held(scope_data) < MaxHeld
    /\ \E scope \in ScopeRefs(scope_data), symbol \in RefSymbols :
           /\ scope_data' = add_ref_to_scope(scope_data, scope, symbol)
           /\ scope_step' = ScopeStep("add_ref_to_scope", scope)
    /\ UNCHANGED <<symbol_data, scope_abort, beside_scope>>

call_set_owner_to_scope ==
    /\ ~scope_abort
    /\ \E scope \in ScopeRefs(scope_data), owner \in OwnerSymbols :
           LET Owned(data) ==
                   /\ Held(data) <= MaxHeld
                   /\ data # scope_data
                   /\ scope_data' = data
           IN /\ Owned(set_owner_to_scope(scope_data, scope, owner))
              /\ scope_step' = ScopeStep("set_owner_to_scope", scope)
    /\ UNCHANGED <<symbol_data, scope_abort, beside_scope>>

\* no scope yet; of the package and the schema symbol, any may fail to
\* resolve in the symbol data the lookups are handed
ScopeInit ==
    /\ source = [f \in SourceFiles |-> <<>>]
    /\ unreadable = "none"
    /\ k_code = FALSE
    /\ opts = [load_packages |-> TRUE, load_plugins |-> FALSE,
               vendor_dirs |-> vendor_dirs]
    /\ LoaderIdle
    /\ SinkIdle
    /\ RecordIdle
    /\ ProbeIdle
    /\ ParserIdle
    /\ ExecIdle
    /\ ThreadsIdle
    /\ scope_data = EmptyScopeData
    /\ symbol_data \in {SymbolData(live \cup (Symbols \ OwnerSymbols)) :
                           live \in SUBSET OwnerSymbols}
    /\ scope_abort = FALSE
    /\ scope_step = NoScopeStep

ScopeNext ==
    \/ call_alloc_root_scope
    \/ call_alloc_local_scope
    \/ call_add_def_to_scope
    \/ call_add_ref_to_scope
    \/ call_set_owner_to_scope

SpecScope == ScopeInit /\ [][ScopeNext]_vars

(***************************************************************************)
(* contains_pos.  A file name is the sequence of its path components; a    *)
(* component is a name and whether it ends in ".k".                        *)
(***************************************************************************)
\* how many components a file name has at most, and the last line of a file
MaxPathLen == 2
MaxLine == 2

Component(name, k) == [name |-> name, k |-> k]

Components == {Component(name, k) : name \in {"pkg", "sub", "main"}, k \in BOOLEAN}

RECURSIVE PathsOf(_)
\* the file names of at most n components
PathsOf(n) ==
    IF n = 0 THEN {<<>>}
    ELSE PathsOf(n - 1)
         \cup {Append(q, c) : q \in {r \in PathsOf(n - 1) : Len(r) = n - 1},
                              c \in Components}

\* the files local scopes and positions lie in
PosFiles == {<<Component("pkg", FALSE), Component("main", TRUE)>>,
             <<Component("pkg", FALSE), Component("sub", TRUE)>>}

Columns == {1, 2}

\* str::ends_with(".k")
ends_with_k(filename) == filename # <<>> /\ filename[Len(filename)].k

\* str::strip_suffix(".k")
strip_suffix_k(filename) ==
    [filename EXCEPT ![Len(filename)] = Component(@.name, FALSE)]

\* the path compared: the file name without a trailing ".k"
real_path(filename) ==
    IF ends_with_k(filename) THEN strip_suffix_k(filename) ELSE filename

\* Path::parent: the path without its last component, None for the empty path
parent(path) ==
    IF path = <<>> THEN [some |-> FALSE, path |-> <<>>]
    ELSE [some |-> TRUE, path |-> SubSeq(path, 1, Len(path) - 1)]

\* a variant of root_contains_pos that compares the file name of the scope
\* as it is written
root_contains_pos_unstripped(filename, pos) ==
    IF filename # real_path(pos.filename)
    THEN IF parent(real_path(pos.filename)).some
         THEN filename = parent(real_path(pos.filename)).path
         ELSE FALSE
    ELSE TRUE

\* RootSymbolScope::contains_pos
root_contains_pos(filename, pos) ==
    IF real_path(filename) # real_path(pos.filename)
    THEN IF parent(real_path(pos.filename)).some
         THEN real_path(filename) = parent(real_path(pos.filename)).path
         ELSE FALSE
    ELSE TRUE

\* Position::less_equal: the same file, and not after the other position
less_equal(a, b) ==
    /\ a.filename = b.filename
    /\ \/ a.line < b.line
       \/ a.line = b.line /\ a.column <= b.column

\* LocalSymbolScope::contains_pos
local_contains_pos(start, end, pos) ==
    start.filename = pos.filename /\ less_equal(start, pos) /\ less_equal(pos, end)

Positions ==
    {Position(f, line, column) : f \in PosFiles, line \in 1..MaxLine, column \in Columns}

\* contains_pos is asked of a Root scope
root_contains_pos_call ==
    /\ ~probe.asked
    /\ \E filename \in PathsOf(MaxPathLen), f \in PathsOf(MaxPathLen) :
           probe' = [asked |-> TRUE, kind |-> "Root", filename |-> filename,
                     start |-> Position(<<>>, 0, 0), end |-> Position(<<>>, 0, 0),
                     pos |-> Position(f, 1, 1),
                     inside |-> root_contains_pos(filename, Position(f, 1, 1))]
    /\ UNCHANGED beside_probe

\* contains_pos is asked of a Local scope
local_contains_pos_call ==
    /\ ~probe.asked
    /\ \E start \in Positions, end \in Positions, pos \in Positions :
           probe' = [asked |-> TRUE, kind |-> "Local", filename |-> start.filename,
                     start |-> start, end |-> end, pos |-> pos,
                     inside |-> local_contains_pos(start, end, pos)]
    /\ UNCHANGED beside_probe

ProbeInit ==
    /\ source = [f \in SourceFiles |-> <<>>]
    /\ unreadable = "none"
    /\ k_code = FALSE
    /\ opts = [load_packages |-> TRUE, load_plugins |-> FALSE,
               vendor_dirs |-> vendor_dirs]
    /\ LoaderIdle
    /\ SinkIdle
    /\ RecordIdle
    /\ ScopeIdle
    /\ ProbeIdle
    /\ ParserIdle
    /\ ExecIdle
    /\ ThreadsIdle

ProbeNext ==
    \/ root_contains_pos_call
    \/ local_contains_pos_call

SpecProbe == ProbeInit /\ [][ProbeNext]_vars

(***************************************************************************)
(* The expression parser: parse_token_streams, then Parser::parse_expr, as *)
(* check_parsing_expr of the parser's tests drives them.  A source text is *)
(* the sequence of its tokens' texts; an expression is a record named by   *)
(* its node.                                                               *)
(***************************************************************************)
OpenDelims == {"(", "[", "{"}

CloseDelims == {")", "]", "}"}

CloseOf(open) == IF open = "(" THEN ")" ELSE IF open = "[" THEN "]" ELSE "}"

\* the texts that are no operand
Reserved ==
    OpenDelims \cup CloseDelims \cup
    {"EOF", ",", "=", ":", "for", "or", "and", "not", "==", "<", ">", "is",
     "in", "+", "-", "*", "/"}

NumberTexts == {"0", "1", "2", "3", "4", "11", "22", "100", "111", "222"}

NameConstantTexts == {"True", "False"}

StringTexts == {"'key'", "'name'", "'alice'", "'gender'", "'female'"}

\* the nodes of the AST
NumberLit(value) == [node |-> "NumberLit", value |-> value]

StringLit(value) == [node |-> "StringLit", value |-> value]

NameConstantLit(value) == [node |-> "NameConstantLit", value |-> value]

Identifier(name) == [node |-> "Identifier", names |-> <<name>>]

Unary(op, operand) == [node |-> "Unary", op |-> op, operand |-> operand]

Binary(left, op, right) ==
    [node |-> "Binary", left |-> left, op |-> op, right |-> right]

Compare(left, ops, comparators) ==
    [node |-> "Compare", left |-> left, ops |-> ops,
     comparators |-> comparators]

Paren(expr) == [node |-> "Paren", expr |-> expr]

List(elts) == [node |-> "List", elts |-> elts]

ConfigEntry(key, value, operation) ==
    [key |-> key, value |-> value, operation |-> operation]

Config(items) == [node |-> "Config", items |-> items]

CompClause(targets, iter) == [targets |-> targets, iter |-> iter]

DictComp(entry, generators) ==
    [node |-> "DictComp", entry |-> entry, generators |-> generators]

RECURSIVE lex_delims(_, _, _)
\* the tokens of src from index i on, under the stack of the delimiters that
\* are open: a closing delimiter closes the innermost open one whatever its
\* kind, and stays what it is when none is open
lex_delims(src, i, delims) ==
    IF i > Len(src) THEN <<>>
    ELSE IF src[i] \in OpenDelims
         THEN <<src[i]>> \o lex_delims(src, i + 1, <<src[i]>> \o delims)
    ELSE IF src[i] \in CloseDelims
         THEN IF delims = <<>>
              THEN <<src[i]>> \o lex_delims(src, i + 1, delims)
              ELSE <<CloseOf(Head(delims))>> \o
                   lex_delims(src, i + 1, Tail(delims))
    ELSE <<src[i]>> \o lex_delims(src, i + 1, delims)

parse_token_streams(src) == lex_delims(src, 1, <<>>)

\* the token at index i: the end of the stream is the token EOF
token(toks, i) == IF i <= Len(toks) THEN toks[i] ELSE "EOF"

\* a mistaken ladder: one tier for every operator
PrecedenceFlat(op) == IF op = "None" THEN 0 ELSE 1

\* the tiers of the binary and the comparison operators, the loosest first
Precedence(op) ==
    IF op = "Or" THEN 1
    ELSE IF op = "And" THEN 2
    ELSE IF op \in {"Eq", "Lt", "Gt", "Is", "IsNot", "In", "NotIn"} THEN 3
    ELSE IF op \in {"Add", "Sub"} THEN 4
    ELSE IF op \in {"Mul", "Div"} THEN 5
    ELSE 0

Operator(op, len) ==
    [op |-> op, len |-> len,
     cmp |-> op \in {"Eq", "Lt", "Gt", "Is", "IsNot", "In", "NotIn"}]

\* the operator that starts at index i, "None" when none does: 'is' 'not'
\* and 'not' 'in' are one operator of two tokens
peek_op(toks, i) ==
    LET t == token(toks, i)
        u == token(toks, i + 1)
    IN  CASE t = "or" -> Operator("Or", 1)
          [] t = "and" -> Operator("And", 1)
          [] t = "==" -> Operator("Eq", 1)
          [] t = "<" -> Operator("Lt", 1)
          [] t = ">" -> Operator("Gt", 1)
          [] t = "is" /\ u = "not" -> Operator("IsNot", 2)
          [] t = "is" /\ u # "not" -> Operator("Is", 1)
          [] t = "in" -> Operator("In", 1)
          [] t = "not" /\ u = "in" -> Operator("NotIn", 2)
          [] t = "+" -> Operator("Add", 1)
          [] t = "-" -> Operator("Sub", 1)
          [] t = "*" -> Operator("Mul", 1)
          [] t = "/" -> Operator("Div", 1)
          [] OTHER -> Operator("None", 0)

\* what a production returns: the expression and the index of the next token
Produced(expr, pos) == [expr |-> expr, pos |-> pos]

RECURSIVE do_parse_simple_expr(_, _, _)
RECURSIVE parse_binary_rest(_, _, _)
RECURSIVE parse_compare_rest(_, _, _, _, _)
RECURSIVE parse_unary_expr(_, _)
RECURSIVE parse_primary_expr(_, _)
RECURSIVE parse_list_items(_, _, _)
RECURSIVE parse_config_entries(_, _, _)

parse_expr(toks, i) == do_parse_simple_expr(toks, i, 0)

\* a literal or a name
parse_operand(t) ==
    IF t \in NumberTexts THEN NumberLit(t)
    ELSE IF t \in NameConstantTexts THEN NameConstantLit(t)
    ELSE IF t \in StringTexts THEN StringLit(t)
    ELSE Identifier(t)

\* the token t is bumped when it is the next one: a closing delimiter the
\* stream does not give is taken as given
bump_token(toks, i, t) == IF token(toks, i) = t THEN i + 1 ELSE i

\* a mistaken recovery: a parenthesis the stream does not close is dropped
parse_paren_close_strict(toks, inner) ==
    IF token(toks, inner.pos) = ")"
    THEN Produced(Paren(inner.expr), inner.pos + 1)
    ELSE Produced(Missing, inner.pos)

parse_paren_close(toks, inner) ==
    Produced(Paren(inner.expr), bump_token(toks, inner.pos, ")"))

\* the elements of a list from index i on, elts parsed so far
list_push(toks, i, elts, elt) ==
    IF elt.pos = i
    THEN parse_list_items(toks, i + 1, elts)
    ELSE parse_list_items(toks, elt.pos, Append(elts, elt.expr))

parse_list_items(toks, i, elts) ==
    LET t == token(toks, i)
    IN  IF t = "]" THEN Produced(List(elts), i + 1)
        ELSE IF t = "EOF" THEN Produced(List(elts), i)
        ELSE IF t = "," THEN parse_list_items(toks, i + 1, elts)
        ELSE list_push(toks, i, elts, parse_expr(toks, i))

\* the loop variables of a comprehension: names separated by commas
RECURSIVE parse_comp_targets(_, _, _)
parse_comp_targets(toks, i, targets) ==
    LET t == token(toks, i)
    IN  IF t = "," THEN parse_comp_targets(toks, i + 1, targets)
        ELSE IF t \in Reserved THEN Produced(targets, i)
        ELSE parse_comp_targets(toks, i + 1, Append(targets, Identifier(t)))

dict_comp_close(toks, entry, targets, iter) ==
    Produced(DictComp(entry, <<CompClause(targets, iter.expr)>>),
           bump_token(toks, iter.pos, "}"))

dict_comp_iter(toks, entry, targets) ==
    dict_comp_close(toks, entry, targets.expr,
                    parse_expr(toks, bump_token(toks, targets.pos, "in")))

\* the entry of a dict comprehension, from the token after 'for' on
parse_dict_comp(toks, entry, i) ==
    dict_comp_iter(toks, entry, parse_comp_targets(toks, i, <<>>))

\* a mistaken tagging: every entry unions
entry_operation_union(toks, i) == "Union"

\* the operation of the entry whose key ends before index i: '=' overrides,
\* ':' unions, and so does a key with its value right behind it
entry_operation(toks, i) ==
    IF token(toks, i) = "=" THEN "Override" ELSE "Union"

config_push(toks, i, items, entry, pos) ==
    IF items = <<>> /\ token(toks, pos) = "for"
    THEN parse_dict_comp(toks, entry, pos + 1)
    ELSE parse_config_entries(toks, IF pos = i THEN i + 1 ELSE pos,
                              Append(items, entry))

config_value(toks, i, items, key, operation, value) ==
    config_push(toks, i, items, ConfigEntry(key, value.expr, operation),
                value.pos)

config_key(toks, i, items, key) ==
    config_value(toks, i, items, key.expr, entry_operation(toks, key.pos),
                 parse_expr(toks, IF token(toks, key.pos) \in {"=", ":"}
                                  THEN key.pos + 1 ELSE key.pos))

\* the entries of a config from index i on, items parsed so far
parse_config_entries(toks, i, items) ==
    LET t == token(toks, i)
    IN  IF t = "}" THEN Produced(Config(items), i + 1)
        ELSE IF t = "EOF" THEN Produced(Config(items), i)
        ELSE IF t = "," THEN parse_config_entries(toks, i + 1, items)
        ELSE config_key(toks, i, items, parse_primary_expr(toks, i))

\* an operand, or what a delimiter opens; a token that starts no expression
\* is bumped and a placeholder stands for the expression
parse_primary_expr(toks, i) ==
    LET t == token(toks, i)
    IN  IF t = "(" THEN parse_paren_close(toks, parse_expr(toks, i + 1))
        ELSE IF t = "[" THEN parse_list_items(toks, i + 1, <<>>)
        ELSE IF t = "{" THEN parse_config_entries(toks, i + 1, <<>>)
        ELSE IF t \in CloseDelims \cup {"EOF"} THEN Produced(Missing, i)
        ELSE IF t \in Reserved THEN Produced(Missing, i + 1)
        ELSE Produced(parse_operand(t), i + 1)

unary_wrap(op, operand) == Produced(Unary(op, operand.expr), operand.pos)

parse_unary_expr(toks, i) ==
    IF token(toks, i) = "not"
    THEN unary_wrap("Not", parse_unary_expr(toks, i + 1))
    ELSE parse_primary_expr(toks, i)

compare_push(toks, left, ops, comparators, op, y) ==
    parse_compare_rest(toks, left, Append(ops, op.op),
                       Append(comparators, y.expr), y.pos)

\* a mistaken chain: the comparison ends at its first comparator
compare_step_single(toks, left, ops, comparators, i, op) ==
    IF op.cmp /\ ops = <<>>
    THEN compare_push(toks, left, ops, comparators, op,
                      do_parse_simple_expr(toks, i + op.len,
                                           Precedence(op.op)))
    ELSE Produced(Compare(left, ops, comparators), i)

\* the comparison goes on while a comparison operator follows
compare_step(toks, left, ops, comparators, i, op) ==
    IF op.cmp
    THEN compare_push(toks, left, ops, comparators, op,
                      do_parse_simple_expr(toks, i + op.len,
                                           Precedence(op.op)))
    ELSE Produced(Compare(left, ops, comparators), i)

\* the chain of comparisons whose left operand is left, from index i on
parse_compare_rest(toks, left, ops, comparators, i) ==
    compare_step(toks, left, ops, comparators, i, peek_op(toks, i))

binary_push(toks, x, op, y, prec1) ==
    parse_binary_rest(toks, Produced(Binary(x.expr, op.op, y.expr), y.pos),
                      prec1)

binary_step(toks, x, prec1, op) ==
    IF Precedence(op.op) <= prec1 THEN x
    ELSE IF op.cmp
         THEN parse_binary_rest(
                  toks, parse_compare_rest(toks, x.expr, <<>>, <<>>, x.pos),
                  prec1)
    ELSE binary_push(toks, x, op,
                     do_parse_simple_expr(toks, x.pos + op.len,
                                          Precedence(op.op)),
                     prec1)

\* the operators that follow the operand x and bind tighter than prec1
parse_binary_rest(toks, x, prec1) ==
    binary_step(toks, x, prec1, peek_op(toks, x.pos))

\* precedence climbing: an operand, then the operators above tier prec1
do_parse_simple_expr(toks, i, prec1) ==
    parse_binary_rest(toks, parse_unary_expr(toks, i), prec1)

\* one case of the parser's tests: a source and the expression expected
Case(src, expect) == [src |-> src, expect |-> expect]

binary_expr_1 ==
    <<Case(<<"1", "+", "2", "*", "3", "-", "4">>,
           Binary(Binary(NumberLit("1"), "Add",
                         Binary(NumberLit("2"), "Mul", NumberLit("3"))),
                  "Sub", NumberLit("4")))>>

binary_expr_2 ==
    <<Case(<<"1", "+", "2", "*", "3", "/", "4">>,
           Binary(NumberLit("1"), "Add",
                  Binary(Binary(NumberLit("2"), "Mul", NumberLit("3")),
                         "Div", NumberLit("4"))))>>

\* the case of binary_expr_4 that calls a function apart
binary_expr_4 ==
    <<Case(<<"x", "==", "a", "or", "b">>,
           Binary(Compare(Identifier("x"), <<"Eq">>, <<Identifier("a")>>),
                  "Or", Identifier("b"))),
      Case(<<"22", ">", "11", "and", "111", "<", "222">>,
           Binary(Compare(NumberLit("22"), <<"Gt">>, <<NumberLit("11")>>),
                  "And",
                  Compare(NumberLit("111"), <<"Lt">>, <<NumberLit("222")>>))),
      Case(<<"key", "in", "[", "'key'", "]">>,
           Compare(Identifier("key"), <<"In">>,
                   <<List(<<StringLit("'key'")>>)>>)),
      Case(<<"key", "not", "in", "[", "'key'", "]">>,
           Compare(Identifier("key"), <<"NotIn">>,
                   <<List(<<StringLit("'key'")>>)>>)),
      Case(<<"1", "is", "1", "and", "11", "is", "not", "22">>,
           Binary(Compare(NumberLit("1"), <<"Is">>, <<NumberLit("1")>>),
                  "And",
                  Compare(NumberLit("11"), <<"IsNot">>,
                          <<NumberLit("22")>>)))>>

logic_expr_0 ==
    <<Case(<<"0", "<", "a", "<", "100">>,
           Compare(NumberLit("0"), <<"Lt", "Lt">>,
                   <<Identifier("a"), NumberLit("100")>>)),
      Case(<<"0", "<", "a", "<", "100", "+", "a">>,
           Compare(NumberLit("0"), <<"Lt", "Lt">>,
                   <<Identifier("a"),
                     Binary(NumberLit("100"), "Add", Identifier("a"))>>)),
      Case(<<"100", ">", "a", ">", "0">>,
           Compare(NumberLit("100"), <<"Gt", "Gt">>,
                   <<Identifier("a"), NumberLit("0")>>)),
      Case(<<"100", "+", "a", ">", "a", ">", "0">>,
           Compare(Binary(NumberLit("100"), "Add", Identifier("a")),
                   <<"Gt", "Gt">>, <<Identifier("a"), NumberLit("0")>>))>>

logic_expr_1 ==
    <<Case(<<"a", "is", "b">>,
           Compare(Identifier("a"), <<"Is">>, <<Identifier("b")>>)),
      Case(<<"a", "is", "not", "True">>,
           Compare(Identifier("a"), <<"IsNot">>,
                   <<NameConstantLit("True")>>)),
      Case(<<"not", "False", "or", "a", ">", "0", "and", "b", "is", "True">>,
           Binary(Unary("Not", NameConstantLit("False")), "Or",
                  Binary(Compare(Identifier("a"), <<"Gt">>,
                                 <<NumberLit("0")>>),
                         "And",
                         Compare(Identifier("b"), <<"Is">>,
                                 <<NameConstantLit("True")>>))))>>

dict_expr ==
    <<Case(<<"{", "k0", "=", "v0", ",", "k1", "=", "v1", "}">>,
           Config(<<ConfigEntry(Identifier("k0"), Identifier("v0"),
                                "Override"),
                    ConfigEntry(Identifier("k1"), Identifier("v1"),
                                "Override")>>))>>

dict_comp_expr ==
    <<Case(<<"{", "k", ":", "v", "+", "1", "for", "k", ",", "v", "in",
             "{", "k1", "=", "1", ",", "k2", "=", "2", "}", "}">>,
           DictComp(ConfigEntry(Identifier("k"),
                                Binary(Identifier("v"), "Add",
                                       NumberLit("1")),
                                "Union"),
                    <<CompClause(
                        <<Identifier("k"), Identifier("v")>>,
                        Config(<<ConfigEntry(Identifier("k1"),
                                             NumberLit("1"), "Override"),
                                 ConfigEntry(Identifier("k2"),
                                             NumberLit("2"),
                                             "Override")>>))>>))>>

config_expr_0 ==
    <<Case(<<"{", "'name'", "=", "{", "'name'", ":", "'alice'", "}", ",",
             "'gender'", "=", "'female'", "}">>,
           Config(<<ConfigEntry(
                        StringLit("'name'"),
                        Config(<<ConfigEntry(StringLit("'name'"),
                                             StringLit("'alice'"),
                                             "Union")>>),
                        "Override"),
                    ConfigEntry(StringLit("'gender'"),
                                StringLit("'female'"), "Override")>>))>>

expr_with_paren ==
    <<Case(<<"(", "2", "+", "3", ")">>,
           Paren(Binary(NumberLit("2"), "Add", NumberLit("3")))),
      Case(<<"(", "(", "2", "+", "3", ")">>,
           Paren(Paren(Binary(NumberLit("2"), "Add", NumberLit("3"))))),
      Case(<<"(", "2", "+", "3", ")", ")">>,
           Paren(Binary(NumberLit("2"), "Add", NumberLit("3"))))>>

expr_with_bracket ==
    <<Case(<<"[", "2", ",", "3", "]">>,
           List(<<NumberLit("2"), NumberLit("3")>>)),
      Case(<<"[", "[", "2", ",", "3", "]">>,
           List(<<List(<<NumberLit("2"), NumberLit("3")>>)>>)),
      Case(<<"[", "2", ",", "3", "]", "]">>,
           List(<<NumberLit("2"), NumberLit("3")>>)),
      Case(<<"[", "2", ",", "3">>,
           List(<<NumberLit("2"), NumberLit("3")>>)),
      Case(<<"[">>, List(<<>>)),
      Case(<<"[", "1", "2", ",", "]">>,
           List(<<NumberLit("1"), NumberLit("2")>>)),
      Case(<<"[", "1", ",", "2", ",", "]">>,
           List(<<NumberLit("1"), NumberLit("2")>>)),
      Case(<<"[", "1", ",", "2", ",">>,
           List(<<NumberLit("1"), NumberLit("2")>>))>>

expr_with_brace ==
    <<Case(<<"{", "a", "=", "2", "}">>,
           Config(<<ConfigEntry(Identifier("a"), NumberLit("2"),
                                "Override")>>)),
      Case(<<"{", "a", "=", "2", "}", "}">>,
           Config(<<ConfigEntry(Identifier("a"), NumberLit("2"),
                                "Override")>>))>>

expr_with_delim ==
    <<Case(<<"(", "{", "a", "=", "2", "}">>,
           Paren(Config(<<ConfigEntry(Identifier("a"), NumberLit("2"),
                                      "Override")>>))),
      Case(<<"(", "{", "a", "=", "(", "2", "}">>,
           Paren(Config(<<ConfigEntry(Identifier("a"),
                                      Paren(NumberLit("2")),
                                      "Override")>>))),
      Case(<<"{", "a", "=", "[", "2", "]">>,
           Config(<<ConfigEntry(Identifier("a"),
                                List(<<NumberLit("2")>>),
                                "Override")>>)),
      Case(<<"[", "{", "a", "=", "2", "}">>,
           List(<<Config(<<ConfigEntry(Identifier("a"), NumberLit("2"),
                                       "Override")>>)>>)),
      Case(<<"(", "{", "a", "=", "[", "2", "}">>,
           Paren(Config(<<ConfigEntry(Identifier("a"),
                                      List(<<NumberLit("2")>>),
                                      "Override")>>))),
      Case(<<"{">>, Config(<<>>)),
      Case(<<"{", "a", "=", "1", "}">>,
           Config(<<ConfigEntry(Identifier("a"), NumberLit("1"),
                                "Override")>>)),
      Case(<<"{", "a", "=", "1">>,
           Config(<<ConfigEntry(Identifier("a"), NumberLit("1"),
                                "Override")>>))>>

\* the cases of the tests above, one sequence
Cases ==
    binary_expr_1 \o binary_expr_2 \o binary_expr_4 \o logic_expr_0 \o
    logic_expr_1 \o dict_expr \o dict_comp_expr \o config_expr_0 \o
    expr_with_paren \o expr_with_bracket \o expr_with_brace \o
    expr_with_delim

TestedSources == {Cases[n].src : n \in DOMAIN Cases}

\* how many operators a generated source holds at most
MaxOps == 3

\* how many tokens a generated source of delimiters holds at most
MaxTokens == 4

\* how deep the configs of a generated source nest at most
MaxNest == 2

OperandTexts == <<"a", "b", "c", "d", "e", "f">>

\* the operand at place k of a generated source
OperandAt(k) == OperandTexts[((k - 1) % Len(OperandTexts)) + 1]

OperatorTexts ==
    {<<"or">>, <<"and">>, <<"==">>, <<"<">>, <<"is">>, <<"is", "not">>,
     <<"in">>, <<"not", "in">>, <<"+">>, <<"-">>, <<"*">>, <<"/">>}

RECURSIVE OperatorChains(_, _)
\* operands from place k on with at most n operators between them
OperatorChains(k, n) ==
    IF n = 0 THEN {<<OperandAt(k)>>}
    ELSE {<<OperandAt(k)>>} \cup
         {<<OperandAt(k)>> \o o \o rest :
              o \in OperatorTexts, rest \in OperatorChains(k + 1, n - 1)}

\* the sources of operators: the first operand may be negated
OperatorSources ==
    {negation \o s :
         negation \in {<<>>, <<"not">>}, s \in OperatorChains(1, MaxOps)}

DelimTexts == {"(", "[", "{", ")", "]", "}", "2", ",", "a", "=", ":"}

RECURSIVE TokenSeqs(_)
\* the sources of delimiters: every sequence of n of the texts, closed or not
TokenSeqs(n) ==
    IF n = 0 THEN {<<>>}
    ELSE {<<t>> \o s : t \in DelimTexts, s \in TokenSeqs(n - 1)}

RECURSIVE ConfigValues(_)
\* the values of an entry: a name, a config of one entry or a dict
\* comprehension, d levels deep at most
ConfigValues(d) ==
    IF d = 0 THEN {<<"v">>}
    ELSE {<<"v">>} \cup
         {<<"{", "k", sep>> \o value \o <<"}">> :
              sep \in {"=", ":"}, value \in ConfigValues(d - 1)} \cup
         {<<"{", "k", sep>> \o value \o <<"for", "k", "in", "x", "}">> :
              sep \in {"=", ":"}, value \in ConfigValues(d - 1)}

ConfigEntryTexts ==
    {<<"k", sep>> \o value :
         sep \in {"=", ":"}, value \in ConfigValues(MaxNest)}

\* the sources of configs: one entry, a second entry behind it, a dict
\* comprehension
ConfigSources ==
    {<<"{">> \o e \o <<"}">> : e \in ConfigEntryTexts} \cup
    {<<"{">> \o e \o <<",", "k", sep, "v", "}">> :
         e \in ConfigEntryTexts, sep \in {"=", ":"}} \cup
    {<<"{">> \o e \o <<"for", "k", "in", "x", "}">> :
         e \in ConfigEntryTexts}

\* the tokens of a source of the set are parsed into one expression
parse_source(sources) ==
    \E src \in sources :
        parser' = [asked |-> TRUE, src |-> src,
                   expr |-> parse_expr(parse_token_streams(src), 1).expr]

\* one source is given: a source of the tests, or one of operators, of
\* delimiters or of configs
check_parsing_expr ==
    /\ ~parser.asked
    /\ \/ parse_source(TestedSources)
       \/ parse_source(OperatorSources)
       \/ \E n \in 1..MaxTokens : parse_source(TokenSeqs(n))
       \/ parse_source(ConfigSources)
    /\ UNCHANGED beside_parser

ParserInit ==
    /\ source = [f \in SourceFiles |-> <<>>]
    /\ unreadable = "none"
    /\ k_code = FALSE
    /\ opts = [load_packages |-> TRUE, load_plugins |-> FALSE,
               vendor_dirs |-> vendor_dirs]
    /\ LoaderIdle
    /\ SinkIdle
    /\ RecordIdle
    /\ ScopeIdle
    /\ ProbeIdle
    /\ ParserIdle
    /\ ExecIdle
    /\ ThreadsIdle

ParserNext == check_parsing_expr

SpecParser == ParserInit /\ [][ParserNext]_vars

(***************************************************************************)
(* execute of the runner: resolve, emit the diagnostics of the parse       *)
(* session and of the resolver, then evaluate or generate, link and run.   *)
(***************************************************************************)
ExecDiag(level, msg) == [level |-> level, msg |-> msg]

\* the diagnostics a parse session may hold when execute is called
SessionDiags ==
    {<<>>, <<ExecDiag("error", "invalid syntax")>>,
     <<ExecDiag("warning", "unused import")>>,
     <<ExecDiag("error", "invalid syntax"), ExecDiag("error", "cannot find module")>>}

\* the diagnostics the resolver may leave in the scope
ScopeDiags ==
    {<<>>, <<ExecDiag("error", "name not defined")>>,
     <<ExecDiag("warning", "unused variable")>>,
     <<ExecDiag("warning", "unused variable"), ExecDiag("error", "type mismatch")>>}

\* the text of a list of diagnostics, one after the other
RECURSIVE emit_from(_, _)
emit_from(diags, i) ==
    IF i > Len(diags) THEN ""
    ELSE diags[i].level \o ": " \o diags[i].msg \o ";" \o emit_from(diags, i + 1)

\* Handler::emit_to_string: the text of every diagnostic the handler holds
emit_to_string(diags) == emit_from(diags, 1)

\* ProgramScope::emit_diagnostics_to_string: Err with the text of the
\* errors, and of the warnings when they are included, if there is any
emit_diagnostics_to_string(diags, include_warnings) ==
    LET shown == SelectSeq(diags, LAMBDA d :
                     d.level = "error" \/ (include_warnings /\ d.level = "warning"))
    IN IF shown = <<>> THEN ExecResult("ok", "")
       ELSE ExecResult("err", emit_to_string(shown))

\* a variant of emit_compile_diag_to_string that leaves the resolver's
\* diagnostics out
emit_compile_diag_parse_only(res_str, sema_err) ==
    IF res_str = "" THEN ExecResult("ok", "") ELSE ExecResult("err", res_str)

\* lines 393-404 of emit_compile_diag_to_string: the resolver's text is
\* appended to the session's, and any text at all is an Err
emit_compile_diag(res_str, sema_err) ==
    LET text == IF sema_err.tag = "err" THEN res_str \o "\n" \o sema_err.err
                ELSE res_str
    IN IF text = "" THEN ExecResult("ok", "") ELSE ExecResult("err", text)

emit_compile_diag_to_string(session, scope, include_warnings, emit_ok) ==
    IF ~emit_ok THEN ExecResult("err", "failed to emit")
    ELSE emit_compile_diag(emit_to_string(session),
                           emit_diagnostics_to_string(scope, include_warnings))

\* the stage st was entered
Stage(st) == Append(exec.trace, st)

\* execute returns
Returned(tag, err, trace) ==
    exec' = [exec EXCEPT !.pc = "returned", !.result = ExecResult(tag, err),
                         !.trace = trace]

\* execute is called with a program, a parse session and arguments
execute ==
    /\ exec.pc = "idle"
    /\ \E compile_only, fast_eval, env_fast_eval, llvm \in BOOLEAN :
       \E session \in SessionDiags :
           exec' = [exec EXCEPT
                       !.pc = "resolve",
                       !.args = ExecArgs(compile_only, fast_eval, env_fast_eval, llvm),
                       !.sess = session]
    /\ UNCHANGED beside_exec

\* resolve_program / resolve_program_with_opts: the scope and its diagnostics
resolve_program ==
    /\ exec.pc = "resolve"
    /\ \E scope \in ScopeDiags :
           exec' = [exec EXCEPT !.pc = "emit", !.scope = scope,
                                !.trace = Stage("resolve_program")]
    /\ UNCHANGED beside_exec

\* emit_compile_diag_to_string(..)?, and the return of compile_only
emit_compile_diag_step ==
    /\ exec.pc = "emit"
    /\ \E emit_ok \in BOOLEAN :
           LET Checked(r) ==
                   IF r.tag = "err"
                   THEN Returned("err", r.err, Stage("emit_compile_diag_to_string"))
                   ELSE IF exec.args.compile_only
                   THEN Returned("ok", "", Stage("emit_compile_diag_to_string"))
                   ELSE exec' = [exec EXCEPT
                            !.pc = IF exec.args.fast_eval \/ exec.args.env_fast_eval
                                      \/ ~exec.args.llvm
                                   THEN "fast" ELSE "gen_libs",
                            !.trace = Stage("emit_compile_diag_to_string")]
           IN Checked(emit_compile_diag_to_string(exec.sess, exec.scope,
                                                  exec.args.compile_only, emit_ok))
    /\ UNCHANGED beside_exec

\* FastRunner::run(&program, args)?
fast_runner_run ==
    /\ exec.pc = "fast"
    /\ \E ok \in BOOLEAN :
           Returned(IF ok THEN "ok" ELSE "err", IF ok THEN "" ELSE "evaluation failed",
                    Stage("FastRunner::run"))
    /\ UNCHANGED beside_exec

\* tempdir()?, temp_file(..)? and KclvmAssembler::gen_libs(args)?
gen_libs ==
    /\ exec.pc = "gen_libs"
    /\ \/ Returned("err", "no temporary directory", exec.trace)
       \/ Returned("err", "code generation failed", Stage("KclvmAssembler::gen_libs"))
       \/ exec' = [exec EXCEPT !.pc = "link",
                                !.trace = Stage("KclvmAssembler::gen_libs")]
    /\ UNCHANGED beside_exec

\* KclvmLinker::link_all_libs(..)?
link_all_libs ==
    /\ exec.pc = "link"
    /\ \/ Returned("err", "link failed", Stage("KclvmLinker::link_all_libs"))
       \/ exec' = [exec EXCEPT !.pc = "run",
                                !.trace = Stage("KclvmLinker::link_all_libs")]
    /\ UNCHANGED beside_exec

\* LibRunner::run(&lib_path, args)?, then the temporary files are removed
lib_runner_run ==
    /\ exec.pc = "run"
    /\ \/ Returned("err", "run failed", Stage("LibRunner::run"))
       \/ Returned("err", "cannot remove the library", Stage("LibRunner::run"))
       \/ Returned("ok", "", Stage("LibRunner::run"))
    /\ UNCHANGED beside_exec

ExecInit ==
    /\ source = [f \in SourceFiles |-> <<>>]
    /\ unreadable = "none"
    /\ k_code = FALSE
    /\ opts = [load_packages |-> TRUE, load_plugins |-> FALSE,
               vendor_dirs |-> vendor_dirs]
    /\ LoaderIdle
    /\ SinkIdle
    /\ RecordIdle
    /\ ScopeIdle
    /\ ProbeIdle
    /\ ParserIdle
    /\ ExecIdle
    /\ ThreadsIdle

ExecNext ==
    \/ execute
    \/ resolve_program
    \/ emit_compile_diag_step
    \/ fast_runner_run
    \/ gen_libs
    \/ link_all_libs
    \/ lib_runner_run

SpecExecute == ExecInit /\ [][ExecNext]_vars

(***************************************************************************)
(* Properties of the loader, checked under Spec.                           *)
(***************************************************************************)
\* the file-path projection of a file graph
PathNodes(g) == Range(file_path_graph(g).nodes)

PathEdges(g) == file_path_graph(g).edges

PathCyclic(g) == \E n \in PathNodes(g) : OnCycle(PathEdges(g), n)

RecursiveLoads(r) == SelectSeq(r.errors, LAMBDA d : d.kind = "RecursiveLoad")

\* files is one whole cycle of the path projection of g: every member lies
\* on a cycle and files holds exactly the paths on a common cycle with it
IsCycleOf(g, files) ==
    /\ files # {}
    /\ \A n \in files :
        /\ OnCycle(PathEdges(g), n)
        /\ \A m \in PathNodes(g) :
               m \in files <=> \/ m = n
                               \/ /\ m \in Reach(PathEdges(g), n)
                                  /\ n \in Reach(PathEdges(g), m)

\* the load went through the whole traversal and reached the cycle check
Completed(r) ==
    \/ r.status = "ok"
    \/ r.err.msg \in {"Module not found in module", "file not in pkgmap"}

\* C1: a load whose traversal completes returns Ok with a Program; when the
\* file-path projection of its graph has a cycle the diagnostics hold
\* exactly one RecursiveLoad error, which lists all the files of one cycle,
\* and when it has none they hold no RecursiveLoad error.
C1_CycleReportedOnce ==
    \A i \in DOMAIN results :
        Completed(results[i]) =>
            /\ results[i].status = "ok"
            /\ results[i].program.root = EntryRoot
            /\ IF PathCyclic(results[i].graph)
               THEN /\ Len(RecursiveLoads(results[i])) = 1
                    /\ IsCycleOf(results[i].graph,
                                 Range(RecursiveLoads(results[i])[1].arg))
               ELSE RecursiveLoads(results[i]) = <<>>

\* a mutual import was loaded: Ok, with one diagnostic naming two files
C1_Witness ==
    \E i \in DOMAIN results :
        /\ results[i].status = "ok"
        /\ Len(RecursiveLoads(results[i])) = 1
        /\ Len(RecursiveLoads(results[i])[1].arg) = 2

\* the modules a Program holds under a package path
ModulesAt(program, p) == IF p \in DOMAIN program.pkgs THEN program.pkgs[p] ELSE <<>>

\* C2: when the same unchanged files are loaded twice through one module
\* cache, first cold and then warm, the second load succeeds as the first
\* did and the two Programs hold identical modules under every package path.
C2_ColdWarmSameAst ==
    (Len(results) = 2 /\ results[1].status = "ok") =>
        /\ results[2].status = "ok"
        /\ \A p \in DOMAIN results[1].program.pkgs \cup DOMAIN results[2].program.pkgs :
               ModulesAt(results[1].program, p) = ModulesAt(results[2].program, p)

\* the second load served a module from the cache the first load filled
C2_Witness ==
    /\ Len(results) = 2
    /\ results[1].status = "ok"
    /\ results[2].status = "ok"
    /\ Len(results[1].parse_log) > Len(results[2].parse_log)
    /\ \E f \in Range(results[2].files) :
           /\ f \notin Range(results[2].parse_log)
           /\ results[2].cache.ast_cache[Canonical(f.path)].body # <<>>

\* the two lookups of find_packages for a recorded call
InternalOf(c) == is_internal_pkg(c.pkg_name, c.pkg_root, c.pkg_path)

ExternalOf(c) == is_external_pkg(c.pkg_path, opts)

\* the path of the call is not empty, not a plugin's and not a builtin's
PlainPath(c) ==
    c.pkg_path # "" /\ ~is_plugin_pkg(c.pkg_path) /\ ~is_builtin_pkg(c.pkg_path)

\* the call recorded exactly one CannotFindModule error with this message
OneError(c, msg) ==
    /\ Len(c.errs) = 1
    /\ c.errs[1].level = "error"
    /\ c.errs[1].kind = "CannotFindModule"
    /\ c.errs[1].msg = msg
    /\ c.errs[1].arg = <<c.pkg_path>>
    /\ c.errs[1] \in Range(sess)

BothFound(c) ==
    PlainPath(c) /\ InternalOf(c).tag = "some" /\ ExternalOf(c).tag = "some"

\* the files of the two packages a conflicting import names
FilesOfBoth(c) ==
    Range(InternalOf(c).info.k_files) \cup Range(ExternalOf(c).info.k_files)

\* C3: a find_packages call whose path is found both as an internal and as
\* an external package records one CannotFindModule 'found multiple times'
\* error and returns None; no file of either package becomes a dependency,
\* a node of the file graph or an entry of the worklist.
C3_ConflictResolvesNeither ==
    \A c \in calls :
        BothFound(c) =>
            /\ c.tag = "none"
            /\ OneError(c, "found multiple times")
            /\ \A n \in Range(file_graph.nodes) \cup Range(unparsed_file) \cup parsed_file :
                   n.path \notin FilesOfBoth(c)
            /\ \A e \in file_graph.edges :
                   e[1].path \notin FilesOfBoth(c) /\ e[2].path \notin FilesOfBoth(c)

\* get_deps met an import that is found twice, each package holding a file
C3_Witness ==
    \E c \in calls :
        /\ BothFound(c)
        /\ c.from = "get_deps"
        /\ InternalOf(c).info.k_files # <<>>
        /\ ExternalOf(c).info.k_files # <<>>
        /\ pc = "bfs"

\* C4 as stated: Some is returned exactly when the path is plain and exactly
\* one of the two lookups succeeds.
C4_SomeIffExactlyOneSucceeds ==
    \A c \in calls :
        c.tag = "some" <=>
            /\ PlainPath(c)
            /\ (InternalOf(c).tag = "some") # (ExternalOf(c).tag = "some")

\* C4: find_packages checks plugin, builtin, internal/external in this order.
\* It returns Err exactly when the path is plain and a lookup fails, and
\* Some exactly when the path is plain, no lookup fails and exactly one
\* finds the package, whose PkgInfo is returned.  A plugin path yields None
\* and one error iff load_plugins is false; a builtin or empty path yields
\* None and no diagnostic; no call records more than one error.
C4_ResolutionOrder ==
    \A c \in calls :
        /\ c.tag = "err" <=>
               PlainPath(c) /\ "err" \in {InternalOf(c).tag, ExternalOf(c).tag}
        /\ c.tag = "some" <=>
               /\ PlainPath(c)
               /\ "err" \notin {InternalOf(c).tag, ExternalOf(c).tag}
               /\ (InternalOf(c).tag = "some") # (ExternalOf(c).tag = "some")
        /\ c.tag = "some" =>
               c.info = IF InternalOf(c).tag = "some" THEN InternalOf(c).info
                        ELSE ExternalOf(c).info
        /\ is_plugin_pkg(c.pkg_path) =>
               /\ c.tag = "none"
               /\ IF c.load_plugins THEN c.errs = <<>>
                  ELSE OneError(c, "plugin package is not found")
        /\ (c.pkg_path = "" \/ (~is_plugin_pkg(c.pkg_path) /\ is_builtin_pkg(c.pkg_path))) =>
               c.tag = "none" /\ c.errs = <<>>
        /\ Len(c.errs) <= 1

\* one file imported a builtin module that is also a directory of the
\* package root, and an external package: only the latter resolves
C4_Witness ==
    /\ \E c \in calls :
           is_builtin_pkg(c.pkg_path) /\ InternalOf(c).tag = "some" /\ c.tag = "none"
    /\ \E c \in calls :
           c.tag = "some" /\ InternalOf(c).tag = "none" /\ ExternalOf(c).tag = "some"

NotFoundCall(c) ==
    PlainPath(c) /\ InternalOf(c).tag = "none" /\ ExternalOf(c).tag = "none"

HasNotFound(r) ==
    \E d \in Range(r.errors) :
        d.kind = "CannotFindModule" /\ d.msg = "not found in the program"

\* the Program of r holds the module of the file n under its package path
InProgram(r, n) ==
    \E k \in DOMAIN ModulesAt(r.program, n.pkg_path) :
        Canonical(ModulesAt(r.program, n.pkg_path)[k].filename) = Canonical(n.path)

\* C5: a plain path found neither internally nor externally records one
\* CannotFindModule 'not found' error and find_packages returns Ok(None).
\* The get_deps that met it goes on: the load is still running after the
\* step, and every other import of the step that resolved has its files in
\* the file graph.  A load that recorded the error and had no other failure
\* returns Ok with a Program holding the module of every file of the graph.
C5_NotFoundIsNotFatal ==
    /\ \A c \in calls :
           NotFoundCall(c) => c.tag = "none" /\ OneError(c, "not found in the program")
    /\ (/\ \E c \in calls : NotFoundCall(c) /\ c.from = "get_deps"
        /\ \A c \in calls : c.tag # "err") =>
           /\ pc = "bfs"
           /\ \A c \in calls :
                  c.tag = "some" =>
                      \A k \in DOMAIN c.info.k_files :
                          PkgFile(c.info.k_files[k], c.info.pkg_path)
                              \in Range(file_graph.nodes)
    /\ \A i \in DOMAIN results :
           (HasNotFound(results[i]) /\ Completed(results[i])) =>
               /\ results[i].status = "ok"
               /\ \A n \in Range(results[i].graph.nodes) : InProgram(results[i], n)

\* a load met a missing package and returned a Program of two files or more
C5_Witness ==
    \E i \in DOMAIN results :
        /\ HasNotFound(results[i])
        /\ results[i].status = "ok"
        /\ Len(results[i].files) >= 2
        /\ \A n \in Range(results[i].graph.nodes) : InProgram(results[i], n)

\* the files parse_file was handed by the load r that cannot be read and
\* have no in-memory text
Unread(r) ==
    {f \in Range(r.parse_log) :
        Canonical(f.path) = unreadable /\ ~(k_code /\ f.pkg_path = MAIN_PKG)}

\* the load r failed on the file f with the message of parse_file_with_session
FailedToLoad(r, f) ==
    /\ r.status = "err"
    /\ r.err = Err("Failed to load KCL file", f.path)
    /\ r.program = NoProgram

\* C6 as stated: the unreadable file is a hard failure and is neither in the
\* module cache nor in the file graph.
C6_UnreadableNotInGraph ==
    \A i \in DOMAIN results :
        \A f \in Unread(results[i]) :
            /\ FailedToLoad(results[i], f)
            /\ Canonical(f.path) \notin DOMAIN results[i].cache.ast_cache
            /\ ~contains_file(results[i].graph, f)

\* C6: a file without in-memory text that cannot be read is a hard failure:
\* the load returns Err 'Failed to load KCL file <filename>' and no Program,
\* and parse_file records nothing for the file: no AST, no dependency entry
\* and no outgoing edge.  The file is a node of the file graph only where an
\* importer parsed before it listed it as a dependency.
C6_UnreadableIsHardFailure ==
    \A i \in DOMAIN results :
        \A f \in Unread(results[i]) :
            /\ FailedToLoad(results[i], f)
            /\ Canonical(f.path) \notin DOMAIN results[i].cache.ast_cache
            /\ f \notin DOMAIN results[i].cache.dep_cache
            /\ dependencies_of(results[i].graph, f) = {}
            /\ contains_file(results[i].graph, f) =>
                   \E e \in results[i].graph.edges : e[2] = f /\ e[1] # f

\* a load failed on an unreadable dependency that its importer had already
\* put into the file graph
C6_Witness ==
    \E i \in DOMAIN results :
        \E f \in Unread(results[i]) :
            /\ FailedToLoad(results[i], f)
            /\ contains_file(results[i].graph, f)
            /\ f.pkg_path # MAIN_PKG

\* C7 as stated: a lookup that fails with an I/O error ends the load with
\* Err, and no load ever panics.
C7_IoFailureIsErr ==
    /\ pc # "crashed"
    /\ (\E c \in calls : c.tag = "err") =>
           results # <<>> /\ results[Len(results)].status = "err"

\* the entry files as package files
EntryPkgFiles == {PkgFile(EntryFiles[i], MAIN_PKG) : i \in DOMAIN EntryFiles}

\* C8 as stated: with load_packages false no file but the entry files is
\* parsed, cached or put into the file graph, and the Program holds the
\* entry files' modules only.
C8_NoImportFollowed ==
    ~opts.load_packages =>
        /\ Range(parse_log) \subseteq EntryPkgFiles
        /\ Range(file_graph.nodes) \subseteq EntryPkgFiles
        /\ DOMAIN module_cache.ast_cache \subseteq {Canonical(f.path) : f \in EntryPkgFiles}
        /\ DOMAIN module_cache.dep_cache \subseteq EntryPkgFiles
        /\ \A i \in DOMAIN results :
               results[i].status = "ok" =>
                   Range(results[i].files) \subseteq EntryPkgFiles

\* the place of the file n in the list files
PlaceOf(files, n) == CHOOSE k \in DOMAIN files : files[k] = n

\* every import edge between two different files points the same way along
\* the list
Topological(files, edges) ==
    \/ \A e \in edges : e[1] # e[2] => PlaceOf(files, e[2]) < PlaceOf(files, e[1])
    \/ \A e \in edges : e[1] # e[2] => PlaceOf(files, e[1]) < PlaceOf(files, e[2])

\* every node of the graph of r is listed exactly once, paths is the list
\* of their paths, and the Program holds one module per listed file
CompleteListing(r) ==
    /\ Range(r.files) = Range(r.graph.nodes)
    /\ NoDup(r.files)
    /\ Len(r.paths) = Len(r.files)
    /\ \A k \in DOMAIN r.files : r.paths[k] = r.files[k].path
    /\ \A n \in Range(r.graph.nodes) \cup Range(r.parse_log) : InProgram(r, n)
    /\ \A p \in DOMAIN r.program.pkgs :
           Len(r.program.pkgs[p]) = Cardinality({n \in Range(r.files) : n.pkg_path = p})

GraphCyclic(g) == \E n \in Range(g.nodes) : n \in Reach(g.edges, n)

SinkOnlyGrows ==
    \A k \in DOMAIN diagnostics :
        k \in DOMAIN diagnostics' /\ diagnostics'[k] = diagnostics[k]

\* C10: under every interleaving of the writers, each diagnostic whose add
\* has returned is among the recorded diagnostics, the two counters add up
\* to the number of recorded diagnostics whenever nobody is in the exclusive
\* section, and no step removes or replaces a recorded diagnostic.
C10_SinkNeverLoses ==
    /\ [](/\ added \subseteq Range(diagnostics)
          /\ lock = "free" => err_count + warn_count = Len(diagnostics))
    /\ [][SinkOnlyGrows]_vars

\* two writers have added diagnostics, a third is in the middle of push and
\* another one is waiting for the exclusive section
C10_Witness ==
    /\ Cardinality({d.by : d \in added}) >= 2
    /\ \E w \in Writers :
           /\ writer[w].pc = "reserved"
           /\ lock = w
           /\ \E v \in Writers \ {w} : writer[v].pc = "idle" /\ writer[v].done < MaxAdds

(***************************************************************************)
(* The recording of parse_file seen by a reader of the cache and the graph *)
(***************************************************************************)
\* the AST of f and its dependency list are in the cache
Cached(cache, f) ==
    Canonical(f.path) \in DOMAIN cache.ast_cache /\ f \in DOMAIN cache.dep_cache

\* the file graph holds f and, as its outgoing edges, the cached dependencies
EdgesRecorded(cache, graph, f) ==
    /\ contains_file(graph, f)
    /\ dependencies_of(graph, f) = Range(cache.dep_cache[f].deps)

\* C11: whatever a reader holding the read guards of the module cache and of
\* the file graph sees, a file whose AST and dependency list are cached has
\* its edges in the file graph, and a file with edges in the file graph has
\* its AST cached: parse_file records both atomically
C11_RecordedTogether ==
    \A f \in DOMAIN pkgmap :
        /\ Cached(observer.seen.cache, f)
               => EdgesRecorded(observer.seen.cache, observer.seen.graph, f)
        /\ dependencies_of(observer.seen.graph, f) # {}
               => Cached(observer.seen.cache, f)

(***************************************************************************)
(* Lookups along the scope chain.                                          *)
(***************************************************************************)
RECURSIVE Chain(_, _)
\* the scopes from a scope up to its Root
Chain(scope, data) ==
    IF scope.kind = "Root" THEN <<scope>>
    ELSE <<scope>> \o Chain(data.locals[scope.id].parent, data)

OwnerOf(scope, data) ==
    IF scope.kind = "Root" THEN data.roots[scope.id].owner
    ELSE data.locals[scope.id].owner

\* the attribute of that name of the owner of the scope, if the scope has
\* an owner that has it
OwnerAttribute(scope, name, data, symbols) ==
    IF OwnerOf(scope, data) \in DOMAIN symbols
       /\ name \in DOMAIN symbols[OwnerOf(scope, data)].attrs
    THEN symbols[OwnerOf(scope, data)].attrs[name]
    ELSE NoSymbol

\* what the scope itself binds the name to: its definition, else the
\* attribute of its owner
Binding(scope, name, data, symbols) ==
    IF scope.kind = "Local" /\ name \in DOMAIN data.locals[scope.id].defs
    THEN data.locals[scope.id].defs[name]
    ELSE OwnerAttribute(scope, name, data, symbols)

Binders(scope, name, data, symbols) ==
    {i \in DOMAIN Chain(scope, data) :
        Binding(Chain(scope, data)[i], name, data, symbols) # NoSymbol}

\* the binding of the nearest scope of the chain that has one
NearestBinding(scope, name, data, symbols) ==
    IF Binders(scope, name, data, symbols) = {} THEN NoSymbol
    ELSE Binding(Chain(scope, data)[CHOOSE i \in Binders(scope, name, data, symbols) :
                                        \A j \in Binders(scope, name, data, symbols) : i <= j],
                 name, data, symbols)

\* C12: look_up_def started on a Local scope returns the nearest binding
\* along the scope chain: the definition of the scope, else the attribute of
\* its owner, else what the parent answers; an inner definition shadows an
\* outer one and an ancestor's definition is found through owners that lack
\* the name
C12_NearestBinding ==
    \A scope \in LocalRefs(scope_data), name \in Names :
        look_up_def(scope, name, scope_data, symbol_data)
            = NearestBinding(scope, name, scope_data, symbol_data)

\* C13: look_up_def answers None only when no scope of the chain defines the
\* name and no owner on the chain has it as an attribute, and a scope whose
\* definitions and owner yield nothing answers what its parent answers
C13_NoneOnlyWhenChainFails ==
    \A scope \in LocalRefs(scope_data), name \in Names :
        /\ look_up_def(scope, name, scope_data, symbol_data) = NoSymbol
               => Binders(scope, name, scope_data, symbol_data) = {}
        /\ Binding(scope, name, scope_data, symbol_data) = NoSymbol
               => look_up_def(scope, name, scope_data, symbol_data)
                      = look_up_def(scope_data.locals[scope.id].parent, name,
                                    scope_data, symbol_data)

Count(seq, x) == Cardinality({i \in DOMAIN seq : seq[i] = x})

\* what one scope adds to the visible symbols: its definitions and the
\* attributes of its owner
Contribution(scope, data, symbols) ==
    (IF scope.kind = "Local" THEN Values(data.locals[scope.id].defs) ELSE <<>>)
        \o (IF OwnerOf(scope, data) \in DOMAIN symbols
            THEN get_all_attributes(symbols[OwnerOf(scope, data)]) ELSE <<>>)

Accumulated(scope, data, symbols, x) ==
    Sum([i \in DOMAIN Chain(scope, data) |->
            Count(Contribution(Chain(scope, data)[i], data, symbols), x)],
        DOMAIN Chain(scope, data))

Ascending(seq) == \A i, j \in DOMAIN seq : i < j => seq[i] <= seq[j]

\* C14: get_all_defs on a Local scope is sorted and holds, each as often as
\* it occurs, the definitions and owner attributes of every scope of the
\* chain up to the package attributes of the Root; whatever look_up_def
\* returns from a scope is in get_all_defs of that scope
C14_AllDefsAccumulates ==
    \A scope \in ScopeRefs(scope_data) :
        /\ scope.kind = "Local"
               => Ascending(get_all_defs(scope, scope_data, symbol_data))
        /\ \A x \in Symbols :
               Count(get_all_defs(scope, scope_data, symbol_data), x)
                   = Accumulated(scope, scope_data, symbol_data, x)
        /\ \A name \in Names :
               look_up_def(scope, name, scope_data, symbol_data) # NoSymbol
                   => look_up_def(scope, name, scope_data, symbol_data)
                          \in Range(get_all_defs(scope, scope_data, symbol_data))

\* a scope nested under another with its own definition, an owner whose
\* attribute sorts before it, and the package attributes further out
C14_Witness ==
    \E scope \in LocalRefs(scope_data) :
        /\ Len(Chain(scope, scope_data)) = 3
        /\ scope_data.locals[scope.id].defs # EmptyMap
        /\ OwnerAttribute(scope, "x", scope_data, symbol_data) # NoSymbol
        /\ Len(get_all_defs(scope, scope_data, symbol_data)) >= 3

\* no step gives a Root scope anything but a reference or an owner
RootKeepsShape ==
    \A i \in DOMAIN scope_data.roots :
        scope_data'.roots[i] # scope_data.roots[i]
            => /\ scope_step'.scope = ScopeRef(i, "Root")
               /\ \/ /\ scope_step'.op = "add_ref_to_scope"
                     /\ \E symbol \in Symbols :
                            scope_data'.roots[i] =
                                [scope_data.roots[i] EXCEPT !.refs = Append(@, symbol)]
                  \/ /\ scope_step'.op = "set_owner_to_scope"
                     /\ \E owner \in Symbols :
                            scope_data'.roots[i] =
                                [scope_data.roots[i] EXCEPT !.owner = owner]

\* add_def_to_scope aimed at a Root scope aborts and stores nothing
RootDefAborts ==
    (scope_step'.op = "add_def_to_scope" /\ scope_step'.scope.kind = "Root")
        => (scope_abort' /\ scope_data' = scope_data)

\* C15: a Root scope never holds direct definitions: get_defs on it is None,
\* its lookup is the attribute of its owner package symbol, add_def_to_scope
\* aimed at it aborts without storing, and only add_ref_to_scope and
\* set_owner_to_scope change it
C15_RootHoldsNoDefs ==
    /\ [](\A root \in RootRefs(scope_data) :
              /\ ~get_defs(scope_data, root).some
              /\ \A name \in Names :
                     look_up_def(root, name, scope_data, symbol_data)
                         = OwnerAttribute(root, name, scope_data, symbol_data))
    /\ [][RootKeepsShape /\ RootDefAborts]_vars

\* a definition was aimed at a Root scope that had taken a reference
C15_Witness ==
    /\ scope_abort
    /\ scope_step = ScopeStep("add_def_to_scope", ScopeRef(1, "Root"))
    /\ scope_data.roots[1].refs # <<>>

(***************************************************************************)
(* Position containment.                                                   *)
(***************************************************************************)
\* the file of the position is the file of the scope, the trailing ".k" of
\* either apart
OwnFile(filename, pos) == real_path(pos.filename) = real_path(filename)

\* the file of the position lies in the directory of the package: its path
\* is the path of the package and one more component
InPackageDirectory(filename, pos) ==
    /\ Len(real_path(pos.filename)) = Len(real_path(filename)) + 1
    /\ \A i \in 1..Len(real_path(filename)) :
           real_path(pos.filename)[i] = real_path(filename)[i]

\* line and column of a position as one number
Offset(p) == p.line * (Cardinality(Columns) + 1) + p.column

\* C16: contains_pos on a Root scope accepts a position exactly when its file
\* is the file of the scope or lies in the directory of the package, both
\* file names compared without a trailing ".k"; on a Local scope it is the
\* inclusive interval test start <= pos <= end within the same file
C16_ContainsPos ==
    probe.asked =>
        /\ probe.kind = "Root" =>
               (probe.inside <=> \/ OwnFile(probe.filename, probe.pos)
                                 \/ InPackageDirectory(probe.filename, probe.pos))
        /\ probe.kind = "Local" =>
               (probe.inside <=> /\ probe.pos.filename = probe.start.filename
                                 /\ probe.pos.filename = probe.end.filename
                                 /\ Offset(probe.start) <= Offset(probe.pos)
                                 /\ Offset(probe.pos) <= Offset(probe.end))

\* a Root scope of the package directory pkg accepted a position in its file
\* pkg/main.k
C16_Witness ==
    /\ probe.asked
    /\ probe.kind = "Root"
    /\ probe.filename = <<Component("pkg", FALSE)>>
    /\ probe.pos.filename = <<Component("pkg", FALSE), Component("main", TRUE)>>
    /\ probe.inside

(***************************************************************************)
(* Properties of the expression parser, checked under SpecParser.          *)
(***************************************************************************)
\* the tier of an operator on the ladder, the loosest first
LadderTier(op) ==
    IF op = "Or" THEN 1
    ELSE IF op = "And" THEN 2
    ELSE IF op \in {"Add", "Sub"} THEN 4
    ELSE IF op \in {"Mul", "Div"} THEN 5
    ELSE 3

\* the tier of the operator at the top of an expression: an operand and a
\* negation stand above every operator
TopTier(expr) ==
    IF expr.node = "Binary" THEN LadderTier(expr.op)
    ELSE IF expr.node = "Compare" THEN 3
    ELSE 6

OperatorText(op) ==
    CASE op = "Or" -> <<"or">>
      [] op = "And" -> <<"and">>
      [] op = "Eq" -> <<"==">>
      [] op = "Lt" -> <<"<">>
      [] op = "Gt" -> <<">">>
      [] op = "Is" -> <<"is">>
      [] op = "IsNot" -> <<"is", "not">>
      [] op = "In" -> <<"in">>
      [] op = "NotIn" -> <<"not", "in">>
      [] op = "Add" -> <<"+">>
      [] op = "Sub" -> <<"-">>
      [] op = "Mul" -> <<"*">>
      [] op = "Div" -> <<"/">>

RECURSIVE Flatten(_)
RECURSIVE FlattenChain(_, _, _)
\* the operators and comparators of a chain from place k on, as texts
FlattenChain(ops, comparators, k) ==
    IF k > Len(ops) \/ k > Len(comparators) THEN <<>>
    ELSE OperatorText(ops[k]) \o Flatten(comparators[k]) \o
         FlattenChain(ops, comparators, k + 1)

\* the texts of an expression of operators, read from left to right
Flatten(expr) ==
    CASE expr.node = "Binary" ->
             Flatten(expr.left) \o OperatorText(expr.op) \o
             Flatten(expr.right)
      [] expr.node = "Compare" ->
             Flatten(expr.left) \o
             FlattenChain(expr.ops, expr.comparators, 1)
      [] expr.node = "Unary" -> <<"not">> \o Flatten(expr.operand)
      [] expr.node = "Identifier" -> expr.names
      [] expr.node \in {"NumberLit", "NameConstantLit", "StringLit"} ->
             <<expr.value>>
      [] OTHER -> <<>>

RECURSIVE ClimbsLadder(_)
\* under an operator, the left operand is of its tier or a tighter one and
\* the right operand of a tighter one; a comparison holds only tighter ones
ClimbsLadder(expr) ==
    CASE expr.node = "Binary" ->
             /\ TopTier(expr.left) >= LadderTier(expr.op)
             /\ TopTier(expr.right) > LadderTier(expr.op)
             /\ ClimbsLadder(expr.left)
             /\ ClimbsLadder(expr.right)
      [] expr.node = "Compare" ->
             /\ TopTier(expr.left) > 3
             /\ ClimbsLadder(expr.left)
             /\ \A k \in DOMAIN expr.comparators :
                    /\ TopTier(expr.comparators[k]) > 3
                    /\ ClimbsLadder(expr.comparators[k])
      [] expr.node = "Unary" -> TopTier(expr.operand) = 6
      [] OTHER -> TRUE

\* the parser gave what the case of the tests expects, when it was asked
\* the case's source
AsExpected(cases) ==
    \A n \in DOMAIN cases :
        parser.src = cases[n].src => parser.expr = cases[n].expect

\* C17: the expression of a source of operators reads as the source from
\* left to right and climbs the ladder: '*' and '/' bind tighter than '+'
\* and '-', these tighter than a comparison, a comparison tighter than
\* 'and', 'and' tighter than 'or', and the binary operators of one tier
\* nest to the left (the comparisons of one tier make one chain); '1+2*3-4',
\* '1+2*3/4' and 'not False or a > 0 and b is True' parse as the tests say.
C17_PrecedenceLadder ==
    parser.asked =>
        /\ AsExpected(binary_expr_1 \o binary_expr_2 \o logic_expr_1)
        /\ parser.src \in OperatorSources =>
               /\ Flatten(parser.expr) = parser.src
               /\ ClimbsLadder(parser.expr)

\* a source of three operators of three tiers was parsed: the tightest sits
\* in the middle, and the loosest to its right is at the top
C17_Witness ==
    /\ parser.asked
    /\ parser.src = <<"a", "+", "b", "*", "c", "or", "d">>
    /\ parser.expr =
           Binary(Binary(Identifier("a"), "Add",
                         Binary(Identifier("b"), "Mul", Identifier("c"))),
                  "Or", Identifier("d"))

\* the texts of a chain of comparisons: operands and comparison operators
ChainTexts == {OperandAt(k) : k \in 1..(MaxOps + 1)} \cup
              {"==", "<", ">", "is", "in", "not"}

\* a source of n >= 1 comparison operators and nothing else
IsChain(src) ==
    /\ src \in OperatorSources
    /\ Len(src) > 1
    /\ src[1] # "not"
    /\ \A k \in DOMAIN src : src[k] \in ChainTexts

\* how many operands a source of operators holds
Operands(src) ==
    Cardinality({k \in DOMAIN src : src[k] \notin Reserved})

RECURSIVE OneChainEach(_)
\* every comparison holds as many comparators as operators, one at least,
\* and neither its left operand nor a comparator is a comparison
OneChainEach(expr) ==
    CASE expr.node = "Binary" ->
             OneChainEach(expr.left) /\ OneChainEach(expr.right)
      [] expr.node = "Compare" ->
             /\ Len(expr.ops) = Len(expr.comparators)
             /\ Len(expr.ops) >= 1
             /\ expr.left.node # "Compare"
             /\ OneChainEach(expr.left)
             /\ \A k \in DOMAIN expr.comparators :
                    /\ expr.comparators[k].node # "Compare"
                    /\ OneChainEach(expr.comparators[k])
      [] expr.node = "Unary" -> OneChainEach(expr.operand)
      [] OTHER -> TRUE

\* C18: a chain of n >= 1 comparison operators ('is', 'is not', 'in' and
\* 'not in' among them) parses into one Compare node: its left operand is
\* the first operand, its ops and its comparators are n long and in the
\* order of the source; no comparison is nested in another; '0 < a < 100'
\* gives left 0, ops [Lt, Lt], comparators [a, 100].
C18_OneCompareNode ==
    parser.asked =>
        /\ AsExpected(logic_expr_0 \o binary_expr_4)
        /\ parser.src \in OperatorSources => OneChainEach(parser.expr)
        /\ IsChain(parser.src) =>
               /\ parser.expr.node = "Compare"
               /\ parser.expr.left = Identifier(OperandAt(1))
               /\ Len(parser.expr.ops) = Operands(parser.src) - 1
               /\ parser.expr.comparators =
                      [k \in 1..(Operands(parser.src) - 1) |->
                           Identifier(OperandAt(k + 1))]
               /\ FlattenChain(parser.expr.ops, parser.expr.comparators, 1)
                      = Tail(parser.src)

\* a chain of three comparisons of three kinds was parsed into one node
C18_Witness ==
    /\ parser.asked
    /\ parser.src = <<"a", "is", "not", "b", "<", "c", "not", "in", "d">>
    /\ parser.expr =
           Compare(Identifier("a"), <<"IsNot", "Lt", "NotIn">>,
                   <<Identifier("b"), Identifier("c"), Identifier("d")>>)

Nesting(ok, delims) == [ok |-> ok, delims |-> delims]

RECURSIVE NestingFrom(_, _, _)
\* the delimiters left open by src from index i on, the innermost first;
\* not ok when a closing delimiter closes nothing or another kind
NestingFrom(src, i, delims) ==
    IF i > Len(src) THEN Nesting(TRUE, delims)
    ELSE IF src[i] \in OpenDelims
         THEN NestingFrom(src, i + 1, <<src[i]>> \o delims)
    ELSE IF src[i] \in CloseDelims
         THEN IF delims # <<>> /\ src[i] = CloseOf(Head(delims))
              THEN NestingFrom(src, i + 1, Tail(delims))
              ELSE Nesting(FALSE, <<>>)
    ELSE NestingFrom(src, i + 1, delims)

\* every delimiter of src is closed by its own kind
Balanced(src) ==
    NestingFrom(src, 1, <<>>) = Nesting(TRUE, <<>>)

\* src leaves delimiters open and closes no other wrongly
Unclosed(src) ==
    /\ NestingFrom(src, 1, <<>>).ok
    /\ NestingFrom(src, 1, <<>>).delims # <<>>

\* the closing delimiters src lacks, in the order that closes it
Closers(src) ==
    [k \in DOMAIN NestingFrom(src, 1, <<>>).delims |->
         CloseOf(NestingFrom(src, 1, <<>>).delims[k])]

\* the node a delimiter opens
NodeOf(open) ==
    IF open = "(" THEN "Paren" ELSE IF open = "[" THEN "List" ELSE "Config"

RECURSIVE NoMissing(_)
\* no placeholder stands in the expression
NoMissing(expr) ==
    CASE expr.node = "Missing" -> FALSE
      [] expr.node = "Binary" -> NoMissing(expr.left) /\ NoMissing(expr.right)
      [] expr.node = "Compare" ->
             /\ NoMissing(expr.left)
             /\ \A k \in DOMAIN expr.comparators :
                    NoMissing(expr.comparators[k])
      [] expr.node = "Unary" -> NoMissing(expr.operand)
      [] expr.node = "Paren" -> NoMissing(expr.expr)
      [] expr.node = "List" ->
             \A k \in DOMAIN expr.elts : NoMissing(expr.elts[k])
      [] expr.node = "Config" ->
             \A k \in DOMAIN expr.items :
                 NoMissing(expr.items[k].key) /\ NoMissing(expr.items[k].value)
      [] expr.node = "DictComp" ->
             /\ NoMissing(expr.entry.key)
             /\ NoMissing(expr.entry.value)
             /\ NoMissing(expr.generators[1].iter)
      [] OTHER -> TRUE

\* the tokens are one whole expression: all of them are parsed and none
\* is missed
WholeExpr(produced, toks) ==
    produced.pos = Len(toks) + 1 /\ NoMissing(produced.expr)

\* src, closed at its end by the delimiters it lacks, is one whole expression
ClosesWhole(src) ==
    WholeExpr(parse_expr(parse_token_streams(src \o Closers(src)), 1),
              src \o Closers(src))

\* the source without its last token
Front(src) == [k \in 1..(Len(src) - 1) |-> src[k]]

\* C19: a source that leaves '(', '[' or '{' open, nested or of mixed kinds,
\* parses into the node of its first delimiter, a Paren, a List or a Config,
\* and, when the delimiters it lacks make it one whole expression, into that
\* very expression, holding what was parsed before the end ('[2,3' a List
\* of 2 and 3, '[' an empty List, '{' an empty Config); a closing delimiter
\* behind a balanced source changes nothing ('[2,3]]' parses as '[2,3]'); an
\* expression is returned in each case.
C19_ImplicitClose ==
    parser.asked =>
        /\ AsExpected(expr_with_paren \o expr_with_bracket \o
                      expr_with_brace \o expr_with_delim)
        /\ Unclosed(parser.src) /\ parser.src[1] \in OpenDelims =>
               parser.expr.node = NodeOf(parser.src[1])
        /\ Unclosed(parser.src) /\ ClosesWhole(parser.src) =>
               parser.expr =
                   parse_expr(parse_token_streams(
                                  parser.src \o Closers(parser.src)),
                              1).expr
        /\ (/\ Len(parser.src) > 1
            /\ parser.src[Len(parser.src)] \in CloseDelims
            /\ Balanced(Front(parser.src))) =>
               parser.expr =
                   parse_expr(parse_token_streams(Front(parser.src)), 1).expr

\* a list in a parenthesis was parsed, neither closed: the parenthesis holds
\* the list and the list the element before the end
C19_Witness ==
    /\ parser.asked
    /\ parser.src = <<"(", "[", "2", ",">>
    /\ parser.expr = Paren(List(<<NumberLit("2")>>))

RECURSIVE Operations(_)
RECURSIVE ItemOperations(_, _)
\* the operations of the items from place k on and of what their values hold
ItemOperations(items, k) ==
    IF k > Len(items) THEN <<>>
    ELSE <<items[k].operation>> \o Operations(items[k].value) \o
         ItemOperations(items, k + 1)

\* the operations of the entries of an expression, in the order of the source
Operations(expr) ==
    CASE expr.node = "Config" -> ItemOperations(expr.items, 1)
      [] expr.node = "DictComp" ->
             <<expr.entry.operation>> \o Operations(expr.entry.value) \o
             Operations(expr.generators[1].iter)
      [] OTHER -> <<>>

RECURSIVE Separators(_, _)
\* the operations the separators of src name from index i on
Separators(src, i) ==
    IF i > Len(src) THEN <<>>
    ELSE IF src[i] = "=" THEN <<"Override">> \o Separators(src, i + 1)
    ELSE IF src[i] = ":" THEN <<"Union">> \o Separators(src, i + 1)
    ELSE Separators(src, i + 1)

\* C20: the entries of a config carry the operations their separators name,
\* one for one and in the order of the source: '=' gives Override and ':'
\* gives Union, in a config, in the configs its values nest and in the entry
\* of a dict comprehension.
C20_OperationTags ==
    parser.asked =>
        /\ AsExpected(dict_expr \o dict_comp_expr \o config_expr_0)
        /\ parser.src \in ConfigSources =>
               Operations(parser.expr) = Separators(parser.src, 1)

\* a config of two entries was parsed, '=' before a dict comprehension whose
\* entry has ':', and ':' behind it
C20_Witness ==
    /\ parser.asked
    /\ parser.src = <<"{", "k", "=", "{", "k", ":", "v", "for", "k", "in",
                      "x", "}", ",", "k", ":", "v", "}">>
    /\ parser.expr =
           Config(<<ConfigEntry(
                        Identifier("k"),
                        DictComp(ConfigEntry(Identifier("k"),
                                             Identifier("v"), "Union"),
                                 <<CompClause(<<Identifier("k")>>,
                                              Identifier("x"))>>),
                        "Override"),
                    ConfigEntry(Identifier("k"), Identifier("v"),
                                "Union")>>)


(***************************************************************************)
(* Properties of execute, checked under SpecExecute.                       *)
(***************************************************************************)
\* the stages that evaluate the program or generate, link and run its code
RunStages ==
    {"FastRunner::run", "KclvmAssembler::gen_libs", "KclvmLinker::link_all_libs",
     "LibRunner::run"}

HasErrors(diags) == \E i \in DOMAIN diags : diags[i].level = "error"

\* the stage st was entered before the k-th stage of the trace
Before(trace, st, k) == \E j \in 1..(k - 1) : trace[j] = st

\* C21: execute enters no runner, assembler or linker stage when the parse
\* session holds a diagnostic or the resolver produced an error: the
\* diagnostics check then returns Err and execute returns it at once; the
\* program is resolved before the check, the check comes before every such
\* stage, and with compile_only no such stage is entered at all.
C21_NoRunWithDiagnostics ==
    /\ \A k \in DOMAIN exec.trace :
        /\ exec.trace[k] \in RunStages =>
              /\ exec.sess = <<>>
              /\ ~HasErrors(exec.scope)
              /\ ~exec.args.compile_only
              /\ Before(exec.trace, "emit_compile_diag_to_string", k)
        /\ exec.trace[k] = "emit_compile_diag_to_string" =>
              Before(exec.trace, "resolve_program", k)
    /\ (exec.pc = "returned" /\ (exec.sess # <<>> \/ HasErrors(exec.scope))) =>
          /\ exec.result.tag = "err"
          /\ exec.result.err # ""
          /\ exec.trace = <<"resolve_program", "emit_compile_diag_to_string">>

\* execute returned Err for a clean parse session whose program the resolver
\* found an error in, although the fast evaluator was asked for
C21_Witness ==
    /\ exec.pc = "returned"
    /\ exec.sess = <<>>
    /\ HasErrors(exec.scope)
    /\ ~exec.args.compile_only
    /\ exec.args.fast_eval
    /\ exec.result.tag = "err"
    /\ exec.trace = <<"resolve_program", "emit_compile_diag_to_string">>

(***************************************************************************)
(* Properties of a load over a warm module cache, checked under SpecWarm.  *)
(***************************************************************************)
\* the first load, over the empty cache, and the second, over the cache the
\* first one filled, both finished and the first returned Ok
ColdThenWarm == Len(results) = 2 /\ results[1].status = "ok"

\* C27 as stated: the load over the warm cache returns the same map from
\* package path to modules as the load over the empty cache: the same keys,
\* packages without source files included, and the same modules under each.
C27_WarmSamePackages ==
    ColdThenWarm =>
        /\ results[2].status = "ok"
        /\ DOMAIN results[2].program.pkgs = DOMAIN results[1].program.pkgs
        /\ \A p \in DOMAIN results[1].program.pkgs :
               ModulesAt(results[2].program, p) = results[1].program.pkgs[p]

\* C28 as stated: the load over the warm cache, with a fresh session,
\* returns the diagnostics the load over the empty cache returned.
C28_WarmSameErrors ==
    ColdThenWarm =>
        /\ results[2].status = "ok"
        /\ Range(results[2].errors) = Range(results[1].errors)

(***************************************************************************)
(* Properties of the traversal of parse_entry, checked under SpecWarm.     *)
(***************************************************************************)
\* the call of the loader that is running returns Ok in this step
ReturnsOk ==
    /\ Len(results') = Len(results) + 1
    /\ results'[Len(results')].status = "ok"

\* a step of the traversal processes the file at the head of the worklist
\* only when the file was not visited before and then marks it visited; a
\* file that was visited is dropped from the worklist and nothing else
\* changes; the call returns Ok from an empty worklist only
OncePerCall ==
    /\ step' \in {"cached", "fresh"} =>
          /\ Head(unparsed_file) \notin parsed_file
          /\ pc' = "bfs" => parsed_file' = parsed_file \cup {Head(unparsed_file)}
    /\ step' = "skip" =>
          /\ Head(unparsed_file) \in parsed_file
          /\ unparsed_file' = Tail(unparsed_file)
          /\ UNCHANGED <<parsed_file, module_cache, file_graph, pkgmap, pkgs, sess,
                         parse_log>>
    /\ (pc = "bfs" /\ ReturnsOk) => unparsed_file = <<>>

\* every file in some package context that the file system of the model
\* can give: the visited set is a subset of this finite set
KnownPkgFiles ==
    {PkgFile(path, pkg_path) :
        path \in {"a", "h", "at", "b", "c", "vc", "d", "e"},
        pkg_path \in {MAIN_PKG, "pa", "pb", "pc", "vendor.pc", "dup", "pe"}}

\* the variant of the traversal: a step that stays in the traversal visits
\* a file that was not visited, or leaves the visited set alone and
\* shortens the worklist
Decreases ==
    \/ parsed_file \subseteq parsed_file' /\ parsed_file' # parsed_file
    \/ parsed_file' = parsed_file /\ Len(unparsed_file') < Len(unparsed_file)

\* C23: the traversal of parse_entry ends for every import graph of the
\* model, the cyclic ones included: every step that stays in the traversal
\* decreases a variant over a finite set of files, every dependency taken
\* from the worklist is processed at most once in one call, however often it
\* was enqueued, and the worklist is empty when the call returns Ok.
C23_TraversalTerminates ==
    /\ [][OncePerCall]_vars
    /\ [][(pc = "bfs" /\ pc' = "bfs") => Decreases]_vars
    /\ [](pc = "bfs" => parsed_file \subseteq KnownPkgFiles)

\* a dependency that two importers enqueued was dropped when it came up the
\* second time, in a load whose import graph has a cycle
C23_Witness ==
    /\ pc = "bfs"
    /\ step = "skip"
    /\ GraphCyclic(file_graph)

\* the module cache the i-th load started with
CacheBefore(i) == IF i = 1 THEN EmptyCache ELSE results[i - 1].cache

ServedOrParsed(f) ==
    IF Canonical(f.path) \in DOMAIN module_cache.ast_cache
    THEN /\ module_cache' = module_cache
         /\ parse_log' = parse_log
         /\ f \in DOMAIN module_cache.dep_cache => calls' = {}
         /\ pc' = "bfs" =>
               /\ f \in DOMAIN module_cache.dep_cache =>
                      dependencies_of(file_graph', f) =
                          Range(module_cache.dep_cache[f].deps)
               /\ dependencies_of(file_graph', f) \ parsed_file'
                      \subseteq Range(unparsed_file')
               /\ Range(unparsed_file') \subseteq
                      Range(Tail(unparsed_file)) \cup dependencies_of(file_graph', f)
    ELSE parse_log' = Append(parse_log, f)

ParsedNow ==
    {parse_log'[j] : j \in {n \in DOMAIN parse_log' : n > Len(parse_log)}}

\* no entry of the module cache is removed, and a cached module changes only
\* in a step that parses the file it belongs to
CacheKept ==
    /\ \A k \in DOMAIN module_cache.ast_cache :
        /\ k \in DOMAIN module_cache'.ast_cache
        /\ module_cache'.ast_cache[k] # module_cache.ast_cache[k] =>
               \E f \in ParsedNow : Canonical(f.path) = k
    /\ \A f \in DOMAIN module_cache.dep_cache :
        /\ f \in DOMAIN module_cache'.dep_cache
        /\ module_cache'.dep_cache[f] # module_cache.dep_cache[f] => f \in ParsedNow

\* the cached module of the file k is the module the parser gave for the
\* text of the file: the import paths as written, no package name filled in
AsParsed(k) ==
    module_cache.ast_cache[k].body = parse_module(Content(k)).body

\* C25: the second pass of parse_program rewrites a copy of each module: no
\* step removes an entry of the module cache, a cached module changes only
\* when its file is parsed again, and every cached module has its import
\* paths and package names as the parser gave them, after the load too.
C25_CachedModulesUntouched ==
    /\ [][CacheKept]_vars
    /\ [](\A k \in DOMAIN module_cache.ast_cache : AsParsed(k))

\* a load returned a Program in which the module of a file has import paths
\* the second pass rewrote, while the cached module has them as written
C25_Witness ==
    \E i \in DOMAIN results :
        /\ results[i].status = "ok"
        /\ \E f \in Range(results[i].files) :
               \E n \in DOMAIN results[i].program.pkgs[f.pkg_path] :
                   /\ results[i].program.pkgs[f.pkg_path][n].filename
                          = module_cache.ast_cache[Canonical(f.path)].filename
                   /\ results[i].program.pkgs[f.pkg_path][n].body
                          # module_cache.ast_cache[Canonical(f.path)].body
                   /\ AsParsed(Canonical(f.path))

(***************************************************************************)
(* The internal invariants of the loader, checked under SpecWarm.          *)
(***************************************************************************)
InvariantPanics == {"Module not found in module", "file not in pkgmap"}

\* C26: the files handed to get_deps (the entry files and the files on the
\* worklist) are in pkgmap; when the traversal is over every file of the
\* final ordering has an AST in the module cache under its canonical path
\* and an entry in pkgmap; so no load ends in one of the panics 'Module not
\* found in module' and 'file not in pkgmap', also when one file is reached
\* under two package paths.
C26_InvariantPanicsUnreachable ==
    /\ pc = "entry" => EntryPkgFiles \subseteq DOMAIN pkgmap
    /\ pc = "bfs" =>
          /\ Range(unparsed_file) \cup parsed_file \subseteq DOMAIN pkgmap
          /\ unparsed_file = <<>> =>
                \A f \in Range(ordered_files(file_graph)) :
                    /\ Canonical(f.path) \in DOMAIN module_cache.ast_cache
                    /\ f \in DOMAIN pkgmap
    /\ \A i \in DOMAIN results :
          /\ results[i].err.msg \notin InvariantPanics
          /\ results[i].status = "ok" =>
                \A f \in Range(results[i].files) :
                    /\ Canonical(f.path) \in DOMAIN results[i].cache.ast_cache
                    /\ f \in DOMAIN results[i].pkgmap

\* a load returned Ok with one physical file in its ordering under two
\* package paths, through a link and as a member of the entry's own package
C26_Witness ==
    \E i \in DOMAIN results :
        /\ results[i].status = "ok"
        /\ PkgFile("c", "pc") \in Range(results[i].files)
        /\ PkgFile("vc", "vendor.pc") \in Range(results[i].files)
        /\ PkgFile("a", "pa") \in Range(results[i].files)

(***************************************************************************)
(* Properties of the order of discovery, checked under SpecOrder.          *)
(***************************************************************************)
\* two loads returned Ok for the same import graph, the same files and the
\* same import edges, whose files they met in different orders
DiscoveredOtherwise ==
    /\ Len(results) = 2
    /\ results[1].status = "ok"
    /\ results[2].status = "ok"
    /\ Range(results[1].graph.nodes) = Range(results[2].graph.nodes)
    /\ results[1].graph.edges = results[2].graph.edges
    /\ results[1].graph.nodes # results[2].graph.nodes

\* the file names of the modules a load returned under each package path
ModuleFiles(r) ==
    [p \in DOMAIN r.program.pkgs |->
        [n \in DOMAIN r.program.pkgs[p] |-> r.program.pkgs[p][n].filename]]

\* C22 as stated, in the part that does not rest on how the ordering
\* breaks ties: two loads of one import graph that discover the dependencies
\* in different orders return the same files and, under the same package
\* paths, the modules of the same files.
C22_SameModules ==
    DiscoveredOtherwise =>
        /\ Range(results[2].files) = Range(results[1].files)
        /\ DOMAIN results[2].program.pkgs = DOMAIN results[1].program.pkgs
        /\ \A p \in DOMAIN results[1].program.pkgs :
               Range(ModuleFiles(results[2])[p]) = Range(ModuleFiles(results[1])[p])

(***************************************************************************)
(* Parent links of the scopes.                                             *)
(***************************************************************************)

\* the parent of the i-th local scope was allocated before it, or resolves
\* to nothing
AllocatedEarlier(data, i) ==
    \/ ~get_scope(data, data.locals[i].parent)
    \/ data.locals[i].parent.kind = "Root"
    \/ data.locals[i].parent.kind = "Local" /\ data.locals[i].parent.id < i

RECURSIVE ChainEnds(_, _, _)
\* following get_parent from a scope reaches a root or an unresolved
\* reference within the given number of steps
ChainEnds(data, scope, steps) ==
    IF ~get_scope(data, scope) \/ scope.kind = "Root" THEN TRUE
    ELSE IF steps = 0 THEN FALSE
    ELSE ChainEnds(data, data.locals[scope.id].parent, steps - 1)

\* every local scope there is keeps its parent in this step
ParentsKept ==
    \A i \in DOMAIN scope_data.locals :
        /\ i \in DOMAIN scope_data'.locals
        /\ scope_data'.locals[i].parent = scope_data.locals[i].parent

\* C30: the parent of a local scope is a scope allocated before it (or
\* resolves to nothing) and no operation of ScopeData changes it, so the
\* chain of parents from any local scope ends within as many steps as there
\* are local scopes, and look_up_def and get_all_defs, which recurse along
\* that chain, return
C30_ParentChainEnds ==
    /\ [](\A i \in DOMAIN scope_data.locals :
             /\ AllocatedEarlier(scope_data, i)
             /\ ChainEnds(scope_data, ScopeRef(i, "Local"), Len(scope_data.locals))
             /\ \A name \in DefNames :
                    look_up_def(ScopeRef(i, "Local"), name, scope_data, symbol_data)
                        \in Symbols \cup {NoSymbol}
             /\ Len(get_all_defs(ScopeRef(i, "Local"), scope_data, symbol_data))
                    <= Held(scope_data) + Cardinality(Symbols))
    /\ [][ParentsKept]_vars

\* a local scope under a local scope under a root, after an operation on
\* one of them, where look_up_def walks the whole chain
C30_Witness ==
    /\ scope_step.op \in {"add_def_to_scope", "set_owner_to_scope", "add_ref_to_scope"}
    /\ \E i \in DOMAIN scope_data.locals :
           /\ scope_data.locals[i].parent.kind = "Local"
           /\ scope_data.locals[scope_data.locals[i].parent.id].parent.kind = "Root"
           /\ scope_data.locals[i].defs = EmptyMap
           /\ scope_data.locals[i].owner = NoSymbol
           /\ \E name \in DefNames :
                  look_up_def(ScopeRef(i, "Local"), name, scope_data, symbol_data)
                      # NoSymbol

(***************************************************************************)
(* Loaders running at once.  Every thread runs parse_program over the same *)
(* sources: the entry file "a", which imports "b".  The module cache, the  *)
(* file graph and the diagnostics of the session are each behind a         *)
(* reader-writer lock that the threads share.  What a thread has left to   *)
(* do is the sequence of its lock operations and of the cache operations   *)
(* between them, in the order of the code.                                 *)
(***************************************************************************)

MaxThreads == 2

Threads == 1..MaxThreads

ThreadEntry == "a"

\* the files the traversal takes from the queue after the entry
ThreadDeps == <<"b">>

\* the files the file graph hands to the second pass
ThreadFiles == <<"b", "a">>

Acquire(rw, mode) == [op |-> "acquire", lock |-> rw, mode |-> mode, file |-> ""]

Release(rw) == [op |-> "release", lock |-> rw, mode |-> "", file |-> ""]

CacheOp(op, file) == [op |-> op, lock |-> "cache", mode |-> "", file |-> file]

Guard(rw, mode) == [lock |-> rw, mode |-> mode]

\* sess.1.write().add_error(..): the guard is a temporary of the statement
add_error_locks(faulty) ==
    IF faulty THEN <<Acquire("sink", "write"), Release("sink")>> ELSE <<>>

\* parse_file: the session while parsing and in get_deps, then the cache
\* for the two inserts, then the file graph for update_file
parse_file_locks(file, faulty) ==
    add_error_locks(faulty)
        \o <<Acquire("cache", "write"), CacheOp("insert", file), Release("cache")>>
        \o <<Acquire("graph", "write"), Release("graph")>>

\* the cached branch of parse_entry: get_deps when the dep cache has no
\* entry, then update_file, with module_cache_read alive to the end of the
\* iteration
hit_locks(file, faulty) ==
    add_error_locks(faulty)
        \o <<Acquire("graph", "write"), Release("graph"), Release("cache")>>

\* a variant of the branch of a miss that keeps module_cache_read
miss_locks_guard_kept(file, faulty) ==
    parse_file_locks(file, faulty) \o <<Release("cache")>>

\* the branch of a miss: drop(module_cache_read), then parse_file
miss_locks(file, faulty) == <<Release("cache")>> \o parse_file_locks(file, faulty)

\* one iteration of the loop of parse_entry for a file not yet visited
visit_locks(file) == <<Acquire("cache", "read"), CacheOp("lookup", file)>>

\* parse_program after the entries: the graph is read for the order of the
\* files, and the cycle error is added with that guard alive
toposort_locks(faulty) ==
    <<Acquire("graph", "read")>> \o add_error_locks(faulty) \o <<Release("graph")>>

\* the second pass for one file: the clone under a temporary read guard,
\* then fix_rel_import_path_with_file
push_module_locks(file, faulty) ==
    <<Acquire("cache", "read"), CacheOp("get", file), Release("cache")>>
        \o add_error_locks(faulty)

RECURSIVE visit_all(_)
\* the loop of parse_entry over the queue
visit_all(files) ==
    IF files = <<>> THEN <<>> ELSE visit_locks(Head(files)) \o visit_all(Tail(files))

RECURSIVE push_all(_, _)
\* the second pass over the files of the graph
push_all(files, faulty) ==
    IF files = <<>> THEN <<>>
    ELSE push_module_locks(Head(files), faulty) \o push_all(Tail(files), faulty)

\* parse_program from the first entry to the diagnostics of the result
parse_program_locks(faulty) ==
    parse_file_locks(ThreadEntry, faulty)
        \o visit_all(ThreadDeps)
        \o toposort_locks(faulty)
        \o push_all(ThreadFiles, faulty)
        \o <<Acquire("sink", "read"), Release("sink")>>

Holders(rw) ==
    {t \in Threads : \E g \in threads.run[t].held : g.lock = rw}

WriteHolders(rw) ==
    {t \in Threads : Guard(rw, "write") \in threads.run[t].held}

Next_op(t) ==
    IF threads.run[t].code = <<>> THEN CacheOp("done", "")
    ELSE Head(threads.run[t].code)

\* the threads blocked in write() on the lock
WaitingWriters(rw) ==
    {t \in Threads : Next_op(t) = Acquire(rw, "write")}

\* RwLock::read and RwLock::write return: a writer needs the lock free, a
\* reader needs no writer and, where the lock prefers writers, none waiting
CanAcquire(t, rw, mode) ==
    IF mode = "write" THEN Holders(rw) = {}
    ELSE /\ WriteHolders(rw) = {}
         /\ threads.policy = "writers" => WaitingWriters(rw) \ {t} = {}

Advance(t, held, code) ==
    [threads EXCEPT !.run[t].held = held, !.run[t].code = code]

\* RwLock::read, RwLock::write
rwlock_acquire(t) ==
    /\ Next_op(t).op = "acquire"
    /\ CanAcquire(t, Next_op(t).lock, Next_op(t).mode)
    /\ threads' = Advance(t, threads.run[t].held
                                 \cup {Guard(Next_op(t).lock, Next_op(t).mode)},
                          Tail(threads.run[t].code))
    /\ UNCHANGED beside_threads

\* a guard goes out of scope or is dropped
drop_guard(t) ==
    /\ Next_op(t).op = "release"
    /\ threads' = Advance(t, {g \in threads.run[t].held : g.lock # Next_op(t).lock},
                          Tail(threads.run[t].code))
    /\ UNCHANGED beside_threads

\* parse_file: ast_cache.insert and dep_cache.insert
cache_insert(t) ==
    /\ Next_op(t).op = "insert"
    /\ threads' = [Advance(t, threads.run[t].held, Tail(threads.run[t].code))
                      EXCEPT !.cached = @ \cup {Next_op(t).file}]
    /\ UNCHANGED beside_threads

\* parse_entry: ast_cache.get decides between the two branches
cache_lookup(t) ==
    /\ Next_op(t).op = "lookup"
    /\ threads' = Advance(t, threads.run[t].held,
                          (IF Next_op(t).file \in threads.cached
                           THEN hit_locks(Next_op(t).file, threads.faulty)
                           ELSE miss_locks(Next_op(t).file, threads.faulty))
                              \o Tail(threads.run[t].code))
    /\ UNCHANGED beside_threads

\* the second pass: ast_cache.get(..).expect(..) unwinds when the file is
\* not there, and the guards go with the stack
cache_get(t) ==
    /\ Next_op(t).op = "get"
    /\ threads' = IF Next_op(t).file \in threads.cached
                  THEN Advance(t, threads.run[t].held, Tail(threads.run[t].code))
                  ELSE [Advance(t, {}, <<>>) EXCEPT !.run[t].panicked = TRUE]
    /\ UNCHANGED beside_threads

\* the threads are spawned on a cold cache; the sources either hold errors
\* at every place that reports one, or none
ThreadsInit ==
    /\ source = [f \in SourceFiles |-> <<>>]
    /\ unreadable = "none"
    /\ k_code = FALSE
    /\ opts = [load_packages |-> TRUE, load_plugins |-> FALSE,
               vendor_dirs |-> vendor_dirs]
    /\ LoaderIdle
    /\ SinkIdle
    /\ RecordIdle
    /\ ScopeIdle
    /\ ProbeIdle
    /\ ParserIdle
    /\ ExecIdle
    /\ \E policy \in {"readers", "writers"}, faulty \in BOOLEAN :
           threads = [run |-> [t \in Threads |->
                                  [code |-> parse_program_locks(faulty),
                                   held |-> {}, panicked |-> FALSE]],
                      cached |-> {}, policy |-> policy, faulty |-> faulty]

ThreadsNext ==
    \/ \E t \in Threads : rwlock_acquire(t)
    \/ \E t \in Threads : drop_guard(t)
    \/ \E t \in Threads : cache_insert(t)
    \/ \E t \in Threads : cache_lookup(t)
    \/ \E t \in Threads : cache_get(t)

\* the scheduler runs some thread that is not blocked
SpecThreads == ThreadsInit /\ [][ThreadsNext]_vars /\ WF_vars(ThreadsNext)

(***************************************************************************)
(* The locks of the loader.                                                *)
(***************************************************************************)

LockRank(rw) == IF rw = "cache" THEN 1 ELSE IF rw = "graph" THEN 2 ELSE 3

AllDone == \A t \in Threads : threads.run[t].code = <<>>

\* a thread asks for a lock only while every guard it holds is of a lock
\* before it in the order cache, graph, sink
InOrder(t) ==
    Next_op(t).op = "acquire" =>
        \A g \in threads.run[t].held : LockRank(g.lock) < LockRank(Next_op(t).lock)

\* C29: a loader thread never asks for the write lock of the module cache
\* while it holds its read guard, and asks for a lock only while the guards
\* it holds are of locks earlier in the order module cache, file graph,
\* diagnostics; while a thread has work left some thread can step, no
\* thread unwinds, and all threads that share the cache finish with no
\* guard held
C29_LoadersComplete ==
    /\ [](\A t \in Threads :
             /\ InOrder(t)
             /\ Next_op(t) = Acquire("cache", "write")
                    => Guard("cache", "read") \notin threads.run[t].held
             /\ ~threads.run[t].panicked)
    /\ [](AllDone \/ ENABLED ThreadsNext)
    /\ <>[](AllDone /\ \A t \in Threads : threads.run[t].held = {})

\* on a miss a thread has dropped its read guard and is blocked in write()
\* on the module cache, which another thread holds for reading
C29_Witness ==
    \E t, u \in Threads :
        /\ t # u
        /\ Next_op(t) = Acquire("cache", "write")
        /\ threads.run[t].code[2] = CacheOp("insert", "b")
        /\ threads.run[t].held = {}
        /\ Guard("cache", "read") \in threads.run[u].held
        /\ ~CanAcquire(t, "cache", "write")

=============================================================================
